---- MODULE Spec2Model ----
(***************************************************************************)
(* State-machine model of the dYdX alert monitor: the polling orchestrator *)
(* (services/monitor_service.py), the custom rule evaluator                *)
(* (services/alert_rule_evaluator.py) and the legacy liquidation engine    *)
(* (services/alert_engine.py).                                             *)
(*                                                                         *)
(* The program runs on one asyncio event loop.  An action of the model is  *)
(* the code a coroutine executes between two suspension points (awaits     *)
(* that perform I/O).  `async with self._status_lock` never suspends: the  *)
(* lock is only held across synchronous statements.                        *)
(*                                                                         *)
(* Modelling conventions                                                   *)
(*  - All tasks of the monitor share one AsyncSession; the rule objects it *)
(*    returns are identity-mapped, so `archived` is one flag per rule.     *)
(*    A failed commit is followed by rollback, which restores the flag to  *)
(*    the committed value.  A flag is uncommitted only while the coroutine *)
(*    that set it awaits its commit, and the session (SQLAlchemy 2, see    *)
(*    async_sessionmaker in core/database.py) refuses a commit or rollback *)
(*    issued meanwhile by another coroutine, so the flag of a rule changes *)
(*    only through the archiving of that rule.                             *)
(*  - Dictionaries are iterated in the fixed order AccountOrder.           *)
(*  - A risk snapshot is reduced to its liquidation distance in percent.   *)
(***************************************************************************)
EXTENDS Integers, Sequences, FiniteSets, TLC

(***************************************************************************)
(* Bounds of the exploration                                               *)
(***************************************************************************)
MaxTicks == 1
MaxApiCalls == 1
MaxWsMessages == 1
MaxPollTicks == 16
MaxDistance == 10
MaxEvaluations == 2
MaxRecords == 2
MaxFloatSample == 3
MaxChannels == 3
MaxRows == 2
MaxPrice == 2
MaxChannelIds == 2

(***************************************************************************)
(* Program constants                                                       *)
(***************************************************************************)
markets_interval == 5
positions_interval == 15
ALERT_COOLDOWN_SECONDS == 300
CriticalDistance == 5

Accounts == {"a1", "a2"}
AccountOrder == <<"a1", "a2">>
NoAccount == "none"
NoMarket == "none"
Rules == {"r1", "r2", "r3", "r4"}
RuleOrder == <<"r1", "r2", "r3", "r4">>
Tasks == {"poll", "api", "ws"}

Inf == 1000000
NoData == -1
Null == -1000000

\* Subaccount.liquidation_threshold_percent of each monitored account
liquidation_threshold_percent(a) == IF a = "a1" THEN 10 ELSE 4

(***************************************************************************)
(* Upstream data.  A raw position snapshot is the account equity with one  *)
(* open position of PositionSize units (0 = no position); the market table *)
(* is the oracle price of that market (0 = table not loaded).              *)
(***************************************************************************)
RawValues == {0, 21}
PriceValues == {2}
PositionSize == 20
EntryPrice == 1
MaintenancePercent == 50

SeqToSet(s) == {s[i] : i \in 1..Len(s)}

RECURSIVE FilterSeq(_, _)
FilterSeq(s, S) ==
  IF s = <<>> THEN <<>>
  ELSE IF Head(s) \in S THEN <<Head(s)>> \o FilterSeq(Tail(s), S)
       ELSE FilterSeq(Tail(s), S)

(***************************************************************************)
(* Risk calculator, reduced to the account-level figures the orchestrator  *)
(* and the two alert engines read.                                         *)
(***************************************************************************)
OraclePrice(markets) == IF markets = 0 THEN EntryPrice ELSE markets

maintenance_requirement(raw, markets) ==
  IF raw = 0 THEN 0
  ELSE (PositionSize * OraclePrice(markets) * MaintenancePercent) \div 100

\* margin ratio in percent (100 = liquidation boundary), Inf without positions
calculate_margin_ratio(equity, requirement) ==
  IF requirement = 0 THEN Inf ELSE (equity * 100) \div requirement

calculate_liquidation_distance(margin_ratio) ==
  IF margin_ratio = Inf THEN Inf ELSE margin_ratio - 100

calculate_risk_metrics(raw, markets) ==
  calculate_liquidation_distance(
    calculate_margin_ratio(raw, maintenance_requirement(raw, markets)))

\* variant: the critical band leaves out the distance of exactly 5
get_risk_status_CriticalExclusive(distance, threshold) ==
  IF distance = Inf THEN "safe"
  ELSE IF distance <= 0 THEN "liquidated"
  ELSE IF distance < CriticalDistance THEN "critical"
  ELSE IF distance <= threshold THEN "warning"
  ELSE "safe"

get_risk_status(distance, threshold) ==
  IF distance = Inf THEN "safe"
  ELSE IF distance <= 0 THEN "liquidated"
  ELSE IF distance <= CriticalDistance THEN "critical"
  ELSE IF distance <= threshold THEN "warning"
  ELSE "safe"

(***************************************************************************)
(* Legacy liquidation / ADL engine (services/alert_engine.py)              *)
(***************************************************************************)
AlertTypes == {"liquidation", "liquidation_warning", "adl_warning"}
NoAlert == [alert_type |-> "none", severity |-> "none"]
NeverAlerted == -1

\* variant: the window is half the configured cooldown
should_alert_HalfWindow(cooldowns, a, alert_type, now) ==
  ~ (cooldowns[a][alert_type] # NeverAlerted
     /\ now - cooldowns[a][alert_type] < ALERT_COOLDOWN_SECONDS \div 2)

should_alert(cooldowns, a, alert_type, now) ==
  ~ (cooldowns[a][alert_type] # NeverAlerted
     /\ now - cooldowns[a][alert_type] < ALERT_COOLDOWN_SECONDS)

record_alert(cooldowns, a, alert_type, now) ==
  [cooldowns EXCEPT ![a][alert_type] = now]

\* variant: the warning band excludes the threshold itself
evaluate_liquidation_risk_Exclusive(cooldowns, a, distance, threshold, now) ==
  IF distance <= 0
  THEN IF should_alert(cooldowns, a, "liquidation", now)
       THEN [alert_type |-> "liquidation", severity |-> "critical"]
       ELSE NoAlert
  ELSE IF distance < threshold
  THEN IF should_alert(cooldowns, a, "liquidation_warning", now)
       THEN [alert_type |-> "liquidation_warning",
             severity |-> IF distance <= CriticalDistance
                          THEN "critical" ELSE "warning"]
       ELSE NoAlert
  ELSE NoAlert

evaluate_liquidation_risk(cooldowns, a, distance, threshold, now) ==
  IF distance <= 0
  THEN IF should_alert(cooldowns, a, "liquidation", now)
       THEN [alert_type |-> "liquidation", severity |-> "critical"]
       ELSE NoAlert
  ELSE IF distance <= threshold
  THEN IF should_alert(cooldowns, a, "liquidation_warning", now)
       THEN [alert_type |-> "liquidation_warning",
             severity |-> IF distance <= CriticalDistance
                          THEN "critical" ELSE "warning"]
       ELSE NoAlert
  ELSE NoAlert

\* variant: the insurance-fund flag is not looked at
evaluate_adl_risk_IgnoresFlag(cooldowns, a, distance, flag, now) ==
  IF distance < 100 /\ should_alert(cooldowns, a, "adl_warning", now)
  THEN [alert_type |-> "adl_warning", severity |-> "warning"]
  ELSE NoAlert

\* margin_ratio < 2.0 is `distance < 100` in percent
evaluate_adl_risk(cooldowns, a, distance, insurance_fund_low, now) ==
  IF insurance_fund_low /\ distance < 100
     /\ should_alert(cooldowns, a, "adl_warning", now)
  THEN [alert_type |-> "adl_warning", severity |-> "warning"]
  ELSE NoAlert

evaluate(cooldowns, a, distance, threshold, insurance_fund_low, now) ==
  LET liq == evaluate_liquidation_risk(cooldowns, a, distance, threshold, now)
  IN IF liq # NoAlert THEN liq
     ELSE evaluate_adl_risk(cooldowns, a, distance, insurance_fund_low, now)

\* variant: the engine returns the alert without recording it
cooldowns_after_NotRecorded(cooldowns, a, alert, now) == cooldowns

\* the cooldown table after evaluate(): the returned alert is recorded
cooldowns_after(cooldowns, a, alert, now) ==
  IF alert = NoAlert THEN cooldowns
  ELSE record_alert(cooldowns, a, alert.alert_type, now)

(***************************************************************************)
(* Custom alert rules (services/alert_rule_evaluator.py)                   *)
(***************************************************************************)
default_cooldown_seconds == 3600

\* Subaccount.user_id: both monitored accounts belong to one user
user_id(a) == "u1"

\* r1: global; r2: targeted at "a2"; r3: as r1 but disabled; r4: as r1 but
\* owned by another user
RuleTable ==
  [r \in Rules |->
     [user_id |-> IF r = "r4" THEN "u2" ELSE "u1",
      subaccount_id |-> IF r = "r2" THEN "a2" ELSE NoAccount,
      enabled |-> r # "r3",
      scope |-> "account",
      position_market |-> NoMarket,
      condition_type |-> "liquidation_distance",
      comparison |-> IF r = "r2" THEN "<" ELSE "<=",
      threshold_value |-> IF r = "r2" THEN 10 ELSE 50,
      cooldown_seconds |-> default_cooldown_seconds]]

\* A float is an integer counting half-thousandths, so that the tolerance
\* of "==" (0.001) lies between representable differences; rounding of the
\* binary representation is left out.
FloatUnit == 2000
equality_tolerance == 2

float(x) == x * FloatUnit
Abs(x) == IF x < 0 THEN 0 - x ELSE x

Comparisons == {"<", "<=", ">", ">=", "=="}

\* variant: "==" is exact equality
_compare_values_ExactEquality(actual_value, threshold, comparison) ==
  CASE comparison = "<" -> actual_value < threshold
    [] comparison = "<=" -> actual_value <= threshold
    [] comparison = ">" -> actual_value > threshold
    [] comparison = ">=" -> actual_value >= threshold
    [] comparison = "==" -> actual_value = threshold
    [] OTHER -> FALSE

_compare_values(actual_value, threshold, comparison) ==
  CASE comparison = "<" -> actual_value < threshold
    [] comparison = "<=" -> actual_value <= threshold
    [] comparison = ">" -> actual_value > threshold
    [] comparison = ">=" -> actual_value >= threshold
    [] comparison = "==" ->
         Abs(actual_value - threshold) < equality_tolerance
    [] OTHER -> FALSE

\* the attribute of RiskMetrics an account-level condition type reads
AccountFigure ==
  [liquidation_distance |-> "liquidation_distance_percent",
   margin_ratio |-> "margin_ratio",
   equity_drop |-> "equity",
   free_collateral |-> "free_collateral"]

\* the key of a position's metrics a position-level condition type reads
PositionFigure ==
  [position_pnl_percent |-> "unrealized_pnl_percent",
   position_pnl_usd |-> "unrealized_pnl",
   position_size_usd |-> "position_value",
   position_size_contracts |-> "size",
   position_liquidation_distance |-> "liquidation_distance_percent",
   position_leverage |-> "leverage",
   position_entry_price |-> "entry_price",
   position_oracle_price |-> "oracle_price"]

\* ... those whose absolute value is taken
AbsoluteFigures ==
  {"position_size_usd", "position_size_contracts", "position_entry_price",
   "position_oracle_price"}

\* pos_metrics.get(key, 0) or 0
get_or_zero(pos_metrics, key) ==
  IF key \in DOMAIN pos_metrics /\ pos_metrics[key] # Null
  THEN pos_metrics[key] ELSE 0

\* the sum of abs(position_value) over the positions that have one
RECURSIVE total_position_size(_, _)
total_position_size(position_metrics, markets) ==
  IF markets = {} THEN 0
  ELSE LET m == CHOOSE x \in markets : TRUE
       IN Abs(get_or_zero(position_metrics[m], "position_value"))
          + total_position_size(position_metrics, markets \ {m})

\* What a call does is "True", "False" or "raise", the last for an
\* exception leaving the function: float(None)
Returns(b) == IF b THEN "True" ELSE "False"

_evaluate_account_condition(rule, metrics) ==
  LET ct == rule.condition_type IN
  IF ct \in DOMAIN AccountFigure
  THEN IF metrics[AccountFigure[ct]] = Null THEN "raise"
       ELSE Returns(_compare_values(float(metrics[AccountFigure[ct]]),
                                    float(rule.threshold_value),
                                    rule.comparison))
  ELSE IF ct = "position_size"
  THEN Returns(_compare_values(
         float(total_position_size(metrics.position_metrics,
                                   DOMAIN metrics.position_metrics)),
         float(rule.threshold_value), rule.comparison))
  ELSE "False"

_evaluate_position_condition(rule, metrics) ==
  LET ct == rule.condition_type
      position_market == rule.position_market
  IN
  IF position_market = NoMarket
     \/ position_market \notin DOMAIN metrics.position_metrics
  THEN "False"
  ELSE IF ct \in DOMAIN PositionFigure
  THEN LET v == get_or_zero(metrics.position_metrics[position_market],
                            PositionFigure[ct])
       IN Returns(_compare_values(
                    float(IF ct \in AbsoluteFigures THEN Abs(v) ELSE v),
                    float(rule.threshold_value), rule.comparison))
  ELSE "False"

\* variant: no try/except around the evaluation
call_evaluate_condition_Propagates(rule, metrics) ==
  IF rule.scope = "position"
  THEN _evaluate_position_condition(rule, metrics)
  ELSE _evaluate_account_condition(rule, metrics)

\* what a call of evaluate_condition does: the except clause returns False
call_evaluate_condition(rule, metrics) ==
  LET met == IF rule.scope = "position"
             THEN _evaluate_position_condition(rule, metrics)
             ELSE _evaluate_account_condition(rule, metrics)
  IN IF met = "raise" THEN "False" ELSE met

\* the value evaluate_rules_for_subaccount gets back
evaluate_condition(rule, metrics) ==
  call_evaluate_condition(rule, metrics) = "True"

\* the RiskMetrics object of the reduced calculator: the margin ratio and
\* the distance, no per-position figures
RiskMetrics(distance) ==
  [liquidation_distance_percent |-> distance,
   margin_ratio |-> IF distance = Inf THEN Inf ELSE distance + 100,
   equity |-> Null, free_collateral |-> Null, position_metrics |-> <<>>]

\* variant: the query does not filter on `enabled`
get_enabled_by_user_AnyState(arch, user) ==
  FilterSeq(RuleOrder,
            {r \in Rules : RuleTable[r].user_id = user /\ ~ arch[r]})

\* AlertRuleCRUD.get_enabled_by_user: the user's enabled, non-archived
\* rules, in order
get_enabled_by_user(arch, user) ==
  FilterSeq(RuleOrder,
            {r \in Rules : /\ RuleTable[r].user_id = user
                           /\ RuleTable[r].enabled
                           /\ ~ arch[r]})

\* variant: the loop does not look at rule.archived
RuleIsSkipped_NoArchivedCheck(r, a, arch) ==
  RuleTable[r].subaccount_id # NoAccount /\ RuleTable[r].subaccount_id # a

\* the two `continue` guards at the head of the evaluator's loop
RuleIsSkipped(r, a, arch) ==
  \/ arch[r]
  \/ (RuleTable[r].subaccount_id # NoAccount /\ RuleTable[r].subaccount_id # a)

\* variant: the flag is not set before the commit is awaited
MarkArchived_NotBeforeAwait(arch, r) == arch

\* archive_rule up to its await: `rule.archived = True` on the shared object
MarkArchived(arch, r) == [arch EXCEPT ![r] = TRUE]

\* the rules left to examine, from the first one that fires (<<>> if none)
RECURSIVE FromFirstFiring(_, _, _, _)
FromFirstFiring(rules, a, distance, arch) ==
  IF rules = <<>> THEN <<>>
  ELSE IF ~ RuleIsSkipped(Head(rules), a, arch)
          /\ evaluate_condition(RuleTable[Head(rules)], RiskMetrics(distance))
       THEN rules
       ELSE FromFirstFiring(Tail(rules), a, distance, arch)

\* AlertRuleEvaluator.should_alert: "no cooldown", whatever was recorded
AlertRuleEvaluator_should_alert(times, r, a, now) == TRUE

\* the key of last_alert_times: rule and subaccount, and the market of a
\* position-scoped rule
cooldown_key(r, a) ==
  <<r, a, IF RuleTable[r].scope = "position"
          THEN RuleTable[r].position_market ELSE "">>

CooldownKeys == {cooldown_key(r, a) : r \in Rules, a \in Accounts}

AlertRuleEvaluator_record_alert(times, r, a, now) ==
  [times EXCEPT ![cooldown_key(r, a)] = now]

NoAlertTimes == [k \in CooldownKeys |-> NeverAlerted]

(***************************************************************************)
(* Notification dispatcher (services/notifications/dispatcher.py).  A      *)
(* channel is its type and what its handler's send does: return True,      *)
(* return False, or raise.                                                 *)
(***************************************************************************)
Handlers ==
  {"telegram", "discord", "slack", "pagerduty", "email", "webhook"}

\* _send_to_channel: a raising send is caught and counts as False
_send_to_channel(channel) == channel.send = "True"

\* variant: the sends run one after the other and stop at the first raise
sends_started_UntilRaise(channels) ==
  {i \in 1..Len(channels) :
     /\ channels[i].channel_type \in Handlers
     /\ \A j \in 1..(i - 1) :
          channels[j].channel_type \in Handlers
            => channels[j].send # "raise"}

\* the sends asyncio.gather runs: one per channel whose type has a handler
sends_started(channels) ==
  {i \in 1..Len(channels) : channels[i].channel_type \in Handlers}

\* the loop over the gathered results, from task i on
RECURSIVE successful_channels(_, _, _)
successful_channels(channels, started, i) ==
  IF i > Len(channels) THEN <<>>
  ELSE (IF i \in started /\ _send_to_channel(channels[i])
        THEN <<channels[i].channel_type>> ELSE <<>>)
       \o successful_channels(channels, started, i + 1)

send_alert(channels) ==
  successful_channels(channels, sends_started(channels), 1)

(***************************************************************************)
(* Rules API (api/alert_rules.py, schemas/alert_rule.py, utils/crud.py).   *)
(* The table holds one user's rules: `rows` are the rules followed in      *)
(* detail, `others` counts further active account-level rules of the user. *)
(***************************************************************************)
active_rule_limit == 25
RowIds == 1..MaxRows
Requests == {"q1", "q2"}
Unset == "unset"

NoRow ==
  [scope |-> "none", position_market |-> NoMarket,
   subaccount_id |-> NoAccount, archived |-> FALSE]

NoStoredRules == [others |-> 0, rows |-> [n \in RowIds |-> NoRow]]

NoBody == [scope |-> Unset, position_market |-> Unset, subaccount_id |-> Unset]
IdleRequest == [pc |-> "idle", row |-> 0, body |-> NoBody]
NoRequests == [q \in Requests |-> IdleRequest]

\* request bodies: AlertRuleCreate always has a scope; AlertRuleUpdate may
\* leave any field out, or give null for the market or the account
CreateBodies ==
  [scope : {"account", "position"},
   position_market : {NoMarket, "BTC-USD"},
   subaccount_id : {NoAccount, "a1"}]

UpdateBodies ==
  [scope : {Unset, "account", "position"},
   position_market : {Unset, NoMarket, "BTC-USD"},
   subaccount_id : {Unset, NoAccount}]

\* AlertRuleCreate.validate_position_scope
validate_position_scope(body) ==
  /\ body.scope = "position" => body.position_market # NoMarket
  /\ body.scope = "account" => body.position_market = NoMarket

\* the number of the user's non-archived rules
active_rules(table) ==
  table.others
  + Cardinality({n \in RowIds : /\ table.rows[n] # NoRow
                                /\ ~ table.rows[n].archived})

\* the position checks of create_alert_rule and update_alert_rule;
\* held: the markets of the account's cached snapshot
position_checks(scope, subaccount_id, position_market, held) ==
  scope = "position" =>
    /\ subaccount_id # NoAccount
    /\ position_market # NoMarket
    /\ position_market \in held

\* update_alert_rule: the values it validates
effective(body, rule, field) ==
  IF body[field] \in {Unset, NoMarket} THEN rule[field] ELSE body[field]

\* variant: an update arms the rule again
updated_row_Rearmed(rule, body) ==
  [f \in DOMAIN rule |->
     IF f = "archived" THEN FALSE
     ELSE IF f \in DOMAIN body /\ body[f] # Unset THEN body[f] ELSE rule[f]]

\* AlertRuleCRUD.update: every field the request carries is assigned
updated_row(rule, body) ==
  [f \in DOMAIN rule |->
     IF f \in DOMAIN body /\ body[f] # Unset THEN body[f] ELSE rule[f]]

FreeRows(table) == {n \in RowIds : table.rows[n] = NoRow}

(***************************************************************************)
(* State of the monitor                                                    *)
(***************************************************************************)
VARIABLES
  running,            \* MonitorService.running
  db_session,         \* MonitorService._db_session: "none" | "open"
  monitored,          \* keys of MonitorService.monitored_subaccounts
  market_info,        \* MonitorService.market_info (0 = empty table)
  cache,              \* MonitorService._subaccount_snapshots
  archived,           \* AlertRule.archived as seen through the shared session
  archived_db,        \* AlertRule.archived as committed
  alert_cooldowns,    \* AlertEngine.alert_cooldowns
  clock,              \* wall clock, in seconds
  markets_counter,    \* local of polling_loop
  positions_counter,  \* local of polling_loop
  task,               \* per coroutine: position and locals
  stop_pc,            \* position of lifespan shutdown / MonitorService.stop
  tick,               \* iterations of the polling loop completed
  tick_limit,         \* iterations explored
  legacy_call,        \* the latest direct call of the legacy engine
  direct_call,        \* the latest direct call of another function
  last_alert_times,   \* AlertRuleEvaluator.last_alert_times
  alert_rules,        \* the alert_rules table as the rules API sees it
  rule_req,           \* per rules API request: position and locals
  tick_events,        \* what the current iteration has done, in order
  registered,         \* accounts that were ever registered
  loop_list,          \* accounts listed by the current position refresh
  loop_seen,          \* ... those whose processing was started
  loop_failed,        \* ... those whose processing raised
  overlap,            \* pairs of tasks whose latest evaluator passes overlapped
  interrupted,        \* the poll task was cancelled inside a recalculation
  api_calls,
  ws_messages

vars == <<running, db_session, monitored, market_info, cache, archived,
          archived_db, alert_cooldowns, clock, markets_counter,
          positions_counter, task, stop_pc, tick, tick_limit,
          legacy_call, direct_call, last_alert_times, alert_rules, rule_req,
          tick_events,
          registered, loop_list, loop_seen, loop_failed, overlap,
          interrupted, api_calls, ws_messages>>

NoSnapshot ==
  [raw_data |-> NoData, metrics |-> Null, status |-> "none", source |-> "none"]

\* RiskMetrics.to_dict: an infinite figure is serialised as null
to_dict(distance) == IF distance = Inf THEN Null ELSE distance

NoLegacyCall ==
  [n |-> 0, acct |-> NoAccount, distance |-> Null, threshold |-> Null,
   at |-> 0, last |-> [k \in AlertTypes |-> NeverAlerted], cooling |-> {},
   result |-> NoAlert]

NoDirectCall == [fn |-> "none"]

IdleTask ==
  [pc |-> "idle", path |-> "none", acct |-> NoAccount, todo |-> <<>>,
   raw |-> NoData, metrics |-> Null, user_rules |-> <<>>,
   cur_rule |-> "none", rule_alerts |-> <<>>, to_send |-> <<>>,
   pass_alerts |-> {}, pass_failed |-> {}, legacy |-> "none", did |-> {},
   sent |-> {}, nochan |-> {}]

\* the accounts the database holds as active when the service starts
ActiveAtStart == {{"a1"}, {"a1", "a2"}}

InitCommon ==
  /\ running = FALSE
  /\ db_session = "none"
  /\ monitored = {}
  /\ market_info = 0
  /\ cache = [a \in Accounts |-> NoSnapshot]
  /\ archived = [r \in Rules |-> FALSE]
  /\ archived_db = [r \in Rules |-> FALSE]
  /\ alert_cooldowns = [a \in Accounts |-> [k \in AlertTypes |-> NeverAlerted]]
  /\ clock = 0
  /\ markets_counter = 0
  /\ positions_counter = 0
  /\ task = [t \in Tasks |->
               IF t = "poll" THEN [IdleTask EXCEPT !.pc = "not_started"]
               ELSE IdleTask]
  /\ stop_pc = "serving"
  /\ tick = 0
  /\ tick_events = <<>>
  /\ registered = {}
  /\ loop_list = {}
  /\ loop_seen = {}
  /\ loop_failed = {}
  /\ overlap = {}
  /\ interrupted = FALSE
  /\ api_calls = 0
  /\ ws_messages = 0
  /\ legacy_call = NoLegacyCall
  /\ direct_call = NoDirectCall
  /\ last_alert_times = NoAlertTimes
  /\ rule_req = NoRequests

Init == InitCommon /\ tick_limit = MaxTicks /\ alert_rules = NoStoredRules

CacheKeys == {a \in Accounts : cache[a] # NoSnapshot}

Ordered(S) == FilterSeq(AccountOrder, S)

RECURSIVE SnapshotItems(_)
SnapshotItems(ids) ==
  IF ids = <<>> THEN <<>>
  ELSE <<[id |-> Head(ids), raw |-> cache[Head(ids)].raw_data]>>
       \o SnapshotItems(Tail(ids))

RECURSIVE AccountItems(_)
AccountItems(ids) ==
  IF ids = <<>> THEN <<>>
  ELSE <<[id |-> Head(ids), raw |-> NoData]>> \o AccountItems(Tail(ids))

RestPaths == {"init_load", "rest_poll", "add", "oracle_recalc"}

InPass(t) == task[t].pc \in {"querying", "committing"}

InRecalc(t) ==
  task[t].pc \in {"fetching", "broadcasting", "legacy_send", "querying",
                  "committing", "dispatching"}

\* the locals of a coroutine that starts to process account a
StartAccount(rec, a, path, pc) ==
  [rec EXCEPT !.pc = pc, !.path = path, !.acct = a, !.raw = NoData,
              !.metrics = Null, !.user_rules = <<>>, !.cur_rule = "none",
              !.rule_alerts = <<>>, !.to_send = <<>>, !.legacy = "none",
              !.did = {}, !.sent = {}, !.nochan = {}]

\* variant: nothing is stored
_cache_status_Dropped(a, distance, source, raw) == NoSnapshot

\* _cache_status: the snapshot stored for an account
_cache_status(a, distance, source, raw) ==
  [raw_data |-> raw, metrics |-> to_dict(distance),
   status |-> get_risk_status(distance, liquidation_threshold_percent(a)),
   source |-> source]

\* where a coroutine continues once evaluate_custom_alert_rules has returned
AfterRules(rec) ==
  IF rec.path = "websocket" THEN [rec EXCEPT !.pc = "broadcasting"]
  ELSE [rec EXCEPT !.pc = "acct_done"]

\* evaluate_custom_alert_rules up to its first await
RulesEntry(rec) ==
  IF db_session = "open"
  THEN [rec EXCEPT !.pc = "querying", !.did = @ \cup {"rules"},
                   !.pass_alerts = {}, !.pass_failed = {}]
  ELSE AfterRules(rec)

\* alert_engine.evaluate, send_alert up to its first await, and what follows
LegacyStage(rec) ==
  LET alert == evaluate(alert_cooldowns, rec.acct, rec.metrics,
                        liquidation_threshold_percent(rec.acct), FALSE, clock)
      rec1 == [rec EXCEPT !.did = @ \cup {"legacy"},
                          !.legacy = alert.alert_type]
  IN IF alert # NoAlert /\ db_session = "open"
     THEN [rec1 EXCEPT !.pc = "legacy_send"]
     ELSE RulesEntry(rec1)

LegacyCooldowns(rec) ==
  cooldowns_after(alert_cooldowns, rec.acct,
                  evaluate(alert_cooldowns, rec.acct, rec.metrics,
                           liquidation_threshold_percent(rec.acct), FALSE,
                           clock),
                  clock)

\* the overlap relation once task t has entered (or not) a new evaluator pass
OverlapAfter(t, rec) ==
  IF rec.pc = "querying" /\ task[t].pc # "querying"
  THEN {p \in overlap : t \notin p}
       \cup {{t, u} : u \in {v \in Tasks \ {t} : InPass(v)}}
  ELSE overlap

\* Bookkeeping when task t returns to its caller: a pair of overlapping
\* passes is forgotten once both passes have ended, and with it their lists
OverlapAtReturn(t) ==
  {p \in overlap : t \notin p \/ \E v \in p \ {t} : InPass(v)}

Returned(t, rec) ==
  [u \in Tasks |->
     LET cur == IF u = t THEN rec ELSE task[u] IN
     IF (u # t /\ InPass(u)) \/ \E p \in OverlapAtReturn(t) : u \in p
     THEN [cur EXCEPT !.pass_alerts = task[u].pass_alerts,
                      !.pass_failed = task[u].pass_failed]
     ELSE [cur EXCEPT !.pass_alerts = {}, !.pass_failed = {}]]

callVars ==
  <<legacy_call, direct_call, last_alert_times, alert_rules, rule_req>>
pollVars == <<markets_counter, positions_counter, tick, tick_limit, callVars,
              tick_events, clock>>
loopHist == <<loop_list, loop_seen, loop_failed>>
ruleVars == <<archived, archived_db>>
stopVars == <<stop_pc, interrupted>>
budgets == <<api_calls, ws_messages>>
service == <<running, db_session, monitored, registered, market_info>>
\* everything the monitor owns, the wall clock excepted
monitorVars ==
  <<service, cache, ruleVars, alert_cooldowns, markets_counter,
    positions_counter, task, stopVars, tick, tick_limit, tick_events,
    loopHist, overlap, budgets>>

(***************************************************************************)
(* The per-account pipeline shared by update_subaccount_via_rest,          *)
(* _recalculate_all_with_fresh_prices, process_message and                 *)
(* _recalculate_all_positions.  pc names the await a coroutine waits in.   *)
(***************************************************************************)

\* variant: without data the function goes on to the broadcast
AfterNoData_GoesOn(rec) == [rec EXCEPT !.pc = "broadcasting"]

\* `if not data: return` and `if not parsed_data: return`
AfterNoData(rec) == [rec EXCEPT !.pc = "acct_done"]

\* get_subaccount_data returns: parse, compute, cache, start the broadcast.
\* NoData stands for no data and for data that parse_subaccount_message
\* gives up on; `raises` stands for an exception in the synchronous part.
FetchReturn(t) ==
  LET rec == task[t] IN
  /\ rec.pc = "fetching"
  /\ \E data \in RawValues \cup {NoData}, raises \in BOOLEAN :
       IF data = NoData
       THEN /\ ~ raises
            /\ task' = [task EXCEPT ![t] = AfterNoData(rec)]
            /\ UNCHANGED <<cache, loop_failed>>
       ELSE IF raises
       THEN /\ task' = [task EXCEPT ![t] = [rec EXCEPT !.pc = "acct_failed"]]
            /\ loop_failed' = IF rec.path = "rest_poll"
                              THEN loop_failed \cup {rec.acct}
                              ELSE loop_failed
            /\ UNCHANGED cache
       ELSE LET m == calculate_risk_metrics(data, market_info) IN
            /\ cache' = [cache EXCEPT ![rec.acct] =
                           _cache_status(rec.acct, m, "rest_poll", data)]
            /\ task' = [task EXCEPT ![t] =
                          [rec EXCEPT !.pc = "broadcasting", !.raw = data,
                                      !.metrics = m,
                                      !.did = {"compute", "cache"}]]
            /\ UNCHANGED loop_failed
  /\ UNCHANGED <<service, alert_cooldowns, pollVars, ruleVars, stopVars,
                 budgets, loop_list, loop_seen, overlap>>

\* broadcast_position_update returns (its own failures are swallowed)
BroadcastReturn(t) ==
  LET rec == task[t]
      rec1 == [rec EXCEPT !.did = @ \cup {"push"}]
  IN
  /\ rec.pc = "broadcasting"
  /\ IF rec.path \in RestPaths
     THEN /\ task' = [task EXCEPT ![t] = LegacyStage(rec1)]
          /\ alert_cooldowns' = LegacyCooldowns(rec1)
          /\ overlap' = OverlapAfter(t, LegacyStage(rec1))
     ELSE /\ task' = [task EXCEPT ![t] = [rec1 EXCEPT !.pc = "acct_done"]]
          /\ UNCHANGED <<alert_cooldowns, overlap>>
  /\ UNCHANGED <<service, cache, pollVars, ruleVars, stopVars, budgets,
                 loopHist>>

\* send_alert returns for the legacy alert
LegacySendReturn(t) ==
  LET rec == task[t]
      new == RulesEntry([rec EXCEPT !.did = @ \cup {"legacy_dispatch"}])
  IN
  /\ rec.pc = "legacy_send"
  /\ task' = [task EXCEPT ![t] = new]
  /\ overlap' = OverlapAfter(t, new)
  /\ UNCHANGED <<service, cache, alert_cooldowns, pollVars, ruleVars,
                 stopVars, budgets, loopHist>>

\* get_enabled_by_user returns; the loop runs up to the first archive commit
QueryReturn(t) ==
  LET rec == task[t] IN
  /\ rec.pc = "querying"
  /\ \E fails \in BOOLEAN :
       LET rest == IF fails THEN <<>>
                   ELSE FromFirstFiring(
                          get_enabled_by_user(archived, user_id(rec.acct)),
                          rec.acct, rec.metrics, archived)
       IN IF rest = <<>>
          THEN /\ task' = [task EXCEPT ![t] = AfterRules(rec)]
               /\ UNCHANGED archived
          ELSE /\ archived' = MarkArchived(archived, Head(rest))
               /\ task' = [task EXCEPT ![t] =
                             [rec EXCEPT !.pc = "committing",
                                         !.cur_rule = Head(rest),
                                         !.user_rules = Tail(rest)]]
  /\ UNCHANGED <<service, cache, alert_cooldowns, pollVars, archived_db,
                 stopVars, budgets, loopHist, overlap>>

\* archive_rule's commit returns; format, append the alert, go on looping
CommitReturn(t) ==
  LET rec == task[t]
      r == rec.cur_rule
  IN
  /\ rec.pc = "committing"
  /\ \E ok \in BOOLEAN :
       LET arch1 == IF ok THEN archived
                    ELSE [archived EXCEPT ![r] = archived_db[r]]
           rec1 == [rec EXCEPT !.rule_alerts = Append(@, r),
                               !.pass_alerts = @ \cup {r},
                               !.pass_failed = IF ok THEN @ ELSE @ \cup {r},
                               !.cur_rule = "none"]
           rest == FromFirstFiring(rec.user_rules, rec.acct, rec.metrics,
                                   arch1)
       IN /\ archived_db' = IF ok THEN [archived_db EXCEPT ![r] = TRUE]
                            ELSE archived_db
          /\ IF rest = <<>>
             THEN /\ archived' = arch1
                  /\ task' = [task EXCEPT ![t] =
                                [rec1 EXCEPT !.pc = "dispatching",
                                             !.user_rules = <<>>,
                                             !.to_send = rec1.rule_alerts,
                                             !.did = @ \cup {"rule_dispatch"}]]
             ELSE /\ archived' = MarkArchived(arch1, Head(rest))
                  /\ task' = [task EXCEPT ![t] =
                                [rec1 EXCEPT !.cur_rule = Head(rest),
                                             !.user_rules = Tail(rest)]]
  /\ last_alert_times' =
       AlertRuleEvaluator_record_alert(last_alert_times, r, rec.acct, clock)
  /\ UNCHANGED <<service, cache, alert_cooldowns, markets_counter,
                 positions_counter, tick, tick_limit, tick_events, clock,
                 legacy_call, direct_call, alert_rules, rule_req, stopVars,
                 budgets, loopHist, overlap>>

\* evaluate_custom_alert_rules: one turn of the send loop
DispatchOutcomes == {"sent", "no_channels", "flush_failed", "commit_failed"}

Dispatch(t) ==
  LET rec == task[t]
      r == Head(rec.to_send)
  IN
  /\ rec.pc = "dispatching"
  /\ \E outcome \in DispatchOutcomes :
       /\ db_session = "none" => outcome = "no_channels"
       /\ LET rec1 ==
                CASE outcome = "sent" ->
                       [rec EXCEPT !.sent = @ \cup {r},
                                   !.to_send = Tail(@)]
                  [] outcome = "no_channels" ->
                       [rec EXCEPT !.nochan = @ \cup {r},
                                   !.to_send = Tail(@)]
                  [] outcome = "flush_failed" ->
                       [rec EXCEPT !.to_send = <<>>]
                  [] outcome = "commit_failed" ->
                       [rec EXCEPT !.sent = @ \cup {r}, !.to_send = <<>>]
          IN task' = [task EXCEPT ![t] =
                        IF rec1.to_send = <<>> THEN AfterRules(rec1)
                        ELSE rec1]
  /\ UNCHANGED <<service, cache, alert_cooldowns, pollVars, ruleVars,
                 stopVars, budgets, loopHist, overlap>>

(***************************************************************************)
(* MonitorService.start and polling_loop (the task "poll")                 *)
(***************************************************************************)
Poll == task["poll"]

SetPoll(rec) == task' = [task EXCEPT !["poll"] = rec]

\* start(): session, load_active_subaccounts, then ensure_market_info
Start ==
  /\ Poll.pc = "not_started"
  /\ running' = TRUE
  /\ db_session' = "open"
  /\ \E S \in ActiveAtStart : monitored' = S /\ registered' = S
  /\ SetPoll([Poll EXCEPT !.pc = "mkt_fetching", !.path = "start"])
  /\ UNCHANGED <<market_info, cache, alert_cooldowns, pollVars, ruleVars,
                 stopVars, budgets, loopHist, overlap>>

\* ensure_market_info(refresh=True): get_markets returns (0: nothing usable)
MarketReturn ==
  /\ Poll.pc = "mkt_fetching"
  /\ \E p \in PriceValues \cup {0} :
       market_info' = IF p # 0 THEN p ELSE market_info
  /\ IF Poll.path = "start"
     THEN SetPoll([Poll EXCEPT !.pc = "init_loop",
                               !.todo = AccountItems(Ordered(monitored))])
     ELSE SetPoll([Poll EXCEPT !.pc = "mkt_loop",
                               !.todo = SnapshotItems(Ordered(CacheKeys))])
  /\ UNCHANGED <<running, db_session, monitored, registered, cache,
                 alert_cooldowns, pollVars, ruleVars, stopVars, budgets,
                 loopHist, overlap>>

\* start(): initial load of every account, then polling_loop
InitLoopNext ==
  /\ Poll.pc = "init_loop"
  /\ IF Poll.todo = <<>>
     THEN SetPoll([Poll EXCEPT !.pc = "loop_top", !.path = "none"])
     ELSE SetPoll([StartAccount(Poll, Head(Poll.todo).id, "init_load",
                                "fetching")
                     EXCEPT !.todo = Tail(Poll.todo)])
  /\ UNCHANGED <<service, cache, alert_cooldowns, pollVars, ruleVars,
                 stopVars, budgets, loopHist, overlap>>

\* `while self.running:` and the market branch of the iteration
LoopTop ==
  /\ Poll.pc = "loop_top"
  /\ IF ~ running
     THEN /\ SetPoll([Poll EXCEPT !.pc = "halted"])
          /\ UNCHANGED tick_events
     ELSE IF markets_counter = 0
     THEN /\ SetPoll([Poll EXCEPT !.pc = "mkt_fetching", !.path = "tick"])
          /\ tick_events' = Append(tick_events, "markets")
     ELSE /\ SetPoll([Poll EXCEPT !.pc = "pos_check"])
          /\ UNCHANGED tick_events
  /\ UNCHANGED <<service, cache, alert_cooldowns, markets_counter,
                 positions_counter, tick, tick_limit,
                 callVars, clock, ruleVars,
                 stopVars, budgets, loopHist, overlap>>

\* variant: the recalculation stores the entry without raw data
recalculated_raw_data_Dropped(snapshot) == NoData

\* `raw_data=raw_data`: the raw data passed to _cache_status is the one read
\* from the snapshot
recalculated_raw_data(snapshot) == snapshot.raw

\* _recalculate_all_with_fresh_prices: one turn of the loop over the
\* snapshot list taken at its start
MktLoopNext ==
  /\ Poll.pc = "mkt_loop"
  /\ IF Poll.todo = <<>>
     THEN /\ SetPoll([Poll EXCEPT !.pc = "pos_check"])
          /\ markets_counter' = markets_interval
          /\ tick_events' = Append(tick_events, "recalculated")
          /\ UNCHANGED cache
     ELSE LET h == Head(Poll.todo) IN
          IF h.raw = NoData \/ h.id \notin monitored
          THEN /\ SetPoll([Poll EXCEPT !.todo = Tail(@)])
               /\ UNCHANGED <<cache, markets_counter, tick_events>>
          ELSE \E raises \in BOOLEAN :
                 LET m == calculate_risk_metrics(h.raw, market_info)
                     rec == [StartAccount(Poll, h.id, "oracle_recalc",
                                          "broadcasting")
                               EXCEPT !.todo = Tail(Poll.todo)]
                 IN IF raises
                    THEN /\ SetPoll([rec EXCEPT !.pc = "acct_failed"])
                         /\ UNCHANGED <<cache, markets_counter, tick_events>>
                    ELSE /\ cache' = [cache EXCEPT ![h.id] =
                                        _cache_status(
                                          h.id, m, "oracle_recalc",
                                          recalculated_raw_data(h))]
                         /\ SetPoll([rec EXCEPT !.raw = h.raw, !.metrics = m,
                                                !.did = {"compute", "cache"}])
                         /\ UNCHANGED <<markets_counter, tick_events>>
  /\ UNCHANGED <<service, alert_cooldowns, positions_counter, tick,
                 tick_limit,
                 callVars, clock, ruleVars, stopVars, budgets, loopHist,
                 overlap>>

\* the position branch: list(self.monitored_subaccounts.items())
PosCheck ==
  /\ Poll.pc = "pos_check"
  /\ IF positions_counter = 0
     THEN /\ SetPoll([Poll EXCEPT !.pc = "pos_loop", !.path = "rest_poll",
                                  !.todo = AccountItems(Ordered(monitored))])
          /\ tick_events' = Append(tick_events, "positions")
          /\ loop_list' = monitored
          /\ loop_seen' = {}
          /\ loop_failed' = {}
     ELSE /\ SetPoll([Poll EXCEPT !.pc = "sleeping"])
          /\ UNCHANGED <<tick_events, loopHist>>
  /\ UNCHANGED <<service, cache, alert_cooldowns, markets_counter,
                 positions_counter, tick, tick_limit,
                 callVars, clock, ruleVars,
                 stopVars, budgets, overlap>>

PosLoopNext ==
  /\ Poll.pc = "pos_loop"
  /\ IF Poll.todo = <<>>
     THEN /\ SetPoll([Poll EXCEPT !.pc = "sleeping"])
          /\ positions_counter' = positions_interval
          /\ UNCHANGED loopHist
     ELSE /\ SetPoll([StartAccount(Poll, Head(Poll.todo).id, "rest_poll",
                                   "fetching")
                        EXCEPT !.todo = Tail(Poll.todo)])
          /\ loop_seen' = loop_seen \cup {Head(Poll.todo).id}
          /\ UNCHANGED <<positions_counter, loop_list, loop_failed>>
  /\ UNCHANGED <<service, cache, alert_cooldowns, markets_counter, tick,
                 tick_limit,
                 callVars, tick_events, clock, ruleVars, stopVars, budgets,
                 overlap>>

\* variant: an account whose processing raised ends the iteration
AfterAccount_AbortsOnFailure(path, pc) ==
  IF pc = "acct_failed" THEN "sleeping"
  ELSE CASE path = "init_load" -> "init_loop"
         [] path = "rest_poll" -> "pos_loop"
         [] path = "oracle_recalc" -> "mkt_loop"
         [] OTHER -> "idle"

\* where the caller's loop resumes once an account was processed ("acct_done")
\* or its processing raised ("acct_failed")
AfterAccount(path, pc) ==
  CASE path = "init_load" -> "init_loop"
    [] path = "rest_poll" -> "pos_loop"
    [] path = "oracle_recalc" -> "mkt_loop"
    [] OTHER -> "idle"

PollReturn ==
  /\ Poll.pc \in {"acct_done", "acct_failed"}
  /\ task' = Returned("poll",
                      [IdleTask EXCEPT !.pc = AfterAccount(Poll.path, Poll.pc),
                                       !.path = Poll.path,
                                       !.todo = Poll.todo])
  /\ overlap' = OverlapAtReturn("poll")
  /\ UNCHANGED <<service, cache, alert_cooldowns, pollVars, ruleVars,
                 stopVars, budgets, loopHist>>

\* variant: a one-second sleep counts for two
CounterAfterSleep_ByTwo(c) == IF c - 2 > 0 THEN c - 2 ELSE 0

\* max(0, counter - 1)
CounterAfterSleep(c) == IF c - 1 > 0 THEN c - 1 ELSE 0

\* asyncio.sleep(1) returns: decrement both counters
Wake ==
  /\ Poll.pc = "sleeping"
  /\ tick < tick_limit
  /\ markets_counter' = CounterAfterSleep(markets_counter)
  /\ positions_counter' = CounterAfterSleep(positions_counter)
  /\ tick' = tick + 1
  /\ clock' = clock + 1
  /\ tick_events' = <<>>
  /\ loop_list' = {}
  /\ loop_seen' = {}
  /\ loop_failed' = {}
  /\ SetPoll([Poll EXCEPT !.pc = "loop_top"])
  /\ UNCHANGED <<service, cache, alert_cooldowns, tick_limit, callVars,
                 ruleVars, stopVars, budgets, overlap>>

(***************************************************************************)
(* API requests (api/subaccounts.py), served once polling_loop was entered *)
(***************************************************************************)
Serving ==
  /\ stop_pc = "serving"
  /\ Poll.pc # "not_started"
  /\ Poll.path \notin {"start", "init_load"}

\* create_subaccount -> add_subaccount, up to the fetch of the new account
ApiAdd(a) ==
  /\ Serving
  /\ api_calls < MaxApiCalls
  /\ task["api"].pc = "idle"
  /\ a \notin registered
  /\ api_calls' = api_calls + 1
  /\ cache' = [cache EXCEPT ![a] = NoSnapshot]
  /\ monitored' = monitored \cup {a}
  /\ registered' = registered \cup {a}
  /\ task' = [task EXCEPT !["api"] = StartAccount(@, a, "add", "fetching")]
  /\ UNCHANGED <<running, db_session, market_info, alert_cooldowns, pollVars,
                 ruleVars, stopVars, ws_messages, loopHist, overlap>>

\* add_subaccount: update_subaccount_via_rest returned or raised
ApiReturn ==
  /\ task["api"].pc \in {"acct_done", "acct_failed"}
  /\ task' = Returned("api", IdleTask)
  /\ overlap' = OverlapAtReturn("api")
  /\ UNCHANGED <<service, cache, alert_cooldowns, pollVars, ruleVars,
                 stopVars, budgets, loopHist>>

\* delete_subaccount -> remove_subaccount
ApiRemove(a) ==
  /\ Serving
  /\ api_calls < MaxApiCalls
  /\ a \in monitored
  /\ api_calls' = api_calls + 1
  /\ monitored' = monitored \ {a}
  /\ cache' = [cache EXCEPT ![a] = NoSnapshot]
  /\ UNCHANGED <<running, db_session, registered, market_info,
                 alert_cooldowns, pollVars, ruleVars, stopVars, ws_messages,
                 task, loopHist, overlap>>

(***************************************************************************)
(* Push-driven updates: process_message and process_markets_update         *)
(***************************************************************************)
Ws == task["ws"]

\* process_message from the cache write to its first await
WsCompute(rec, data, markets) ==
  LegacyStage([rec EXCEPT !.raw = data,
                          !.metrics = calculate_risk_metrics(data, markets),
                          !.did = {"compute", "cache"}])

WsCooldowns(rec, data, markets) ==
  LegacyCooldowns([rec EXCEPT !.metrics =
                                calculate_risk_metrics(data, markets)])

\* a subaccount message for a monitored account
WsSubaccountMessage(a, data) ==
  /\ Serving
  /\ running
  /\ ws_messages < MaxWsMessages
  /\ Ws.pc = "idle"
  /\ a \in monitored
  /\ ws_messages' = ws_messages + 1
  /\ LET rec == StartAccount(Ws, a, "websocket", "idle") IN
     IF market_info # 0
     THEN /\ cache' = [cache EXCEPT ![a] =
                         _cache_status(a,
                           calculate_risk_metrics(data, market_info),
                           "websocket", data)]
          /\ task' = [task EXCEPT !["ws"] = WsCompute(rec, data, market_info)]
          /\ alert_cooldowns' = WsCooldowns(rec, data, market_info)
          /\ overlap' = OverlapAfter("ws", WsCompute(rec, data, market_info))
     ELSE /\ task' = [task EXCEPT !["ws"] =
                        [rec EXCEPT !.pc = "ws_markets", !.raw = data]]
          /\ UNCHANGED <<cache, alert_cooldowns, overlap>>
  /\ UNCHANGED <<running, db_session, monitored, registered, market_info,
                 pollVars, ruleVars, stopVars, api_calls, loopHist>>

\* process_message: ensure_market_info() had to fetch the table first
WsMarketsLoaded ==
  /\ Ws.pc = "ws_markets"
  /\ \E p \in PriceValues \cup {0} :
       LET markets == IF p # 0 THEN p ELSE market_info IN
       /\ market_info' = markets
       /\ cache' = [cache EXCEPT ![Ws.acct] =
                      _cache_status(Ws.acct,
                        calculate_risk_metrics(Ws.raw, markets),
                        "websocket", Ws.raw)]
       /\ task' = [task EXCEPT !["ws"] = WsCompute(Ws, Ws.raw, markets)]
       /\ alert_cooldowns' = WsCooldowns(Ws, Ws.raw, markets)
       /\ overlap' = OverlapAfter("ws", WsCompute(Ws, Ws.raw, markets))
  /\ UNCHANGED <<running, db_session, monitored, registered, pollVars,
                 ruleVars, stopVars, budgets, loopHist>>

\* a markets message: merge the table (p = 0: the message carries no oracle
\* price, the known one is kept), then _recalculate_all_positions
WsMarketsMessage(p) ==
  /\ Serving
  /\ running
  /\ ws_messages < MaxWsMessages
  /\ Ws.pc = "idle"
  /\ ws_messages' = ws_messages + 1
  /\ market_info' = IF p # 0 THEN p ELSE market_info
  /\ task' = [task EXCEPT !["ws"] =
                [Ws EXCEPT !.pc = "ws_loop",
                           !.todo = SnapshotItems(Ordered(CacheKeys))]]
  /\ UNCHANGED <<running, db_session, monitored, registered, cache,
                 alert_cooldowns, pollVars, ruleVars, stopVars, api_calls,
                 loopHist, overlap>>

\* _recalculate_all_positions: one turn of its loop
WsLoopNext ==
  /\ Ws.pc = "ws_loop"
  /\ IF Ws.todo = <<>>
     THEN /\ task' = [task EXCEPT !["ws"] = IdleTask]
          /\ UNCHANGED cache
     ELSE LET h == Head(Ws.todo) IN
          IF h.id \notin monitored \/ h.raw = NoData \/ h.raw = 0
          THEN /\ task' = [task EXCEPT !["ws"] = [Ws EXCEPT !.todo = Tail(@)]]
               /\ UNCHANGED cache
          ELSE LET m == calculate_risk_metrics(h.raw, market_info) IN
               /\ cache' = [cache EXCEPT ![h.id] =
                              _cache_status(h.id, m, "markets_ws", h.raw)]
               /\ task' = [task EXCEPT !["ws"] =
                             [StartAccount(Ws, h.id, "markets_ws",
                                           "broadcasting")
                                EXCEPT !.todo = Tail(Ws.todo), !.raw = h.raw,
                                       !.metrics = m,
                                       !.did = {"compute", "cache"}]]
  /\ UNCHANGED <<service, alert_cooldowns, pollVars, ruleVars, stopVars,
                 budgets, loopHist, overlap>>

WsReturn ==
  /\ Ws.pc \in {"acct_done", "acct_failed"}
  /\ task' = Returned("ws",
                      IF Ws.path = "markets_ws"
                      THEN [IdleTask EXCEPT !.pc = "ws_loop",
                                            !.path = "markets_ws",
                                            !.todo = Ws.todo]
                      ELSE IdleTask)
  /\ overlap' = OverlapAtReturn("ws")
  /\ UNCHANGED <<service, cache, alert_cooldowns, pollVars, ruleVars,
                 stopVars, budgets, loopHist>>

(***************************************************************************)
(* Shutdown: lifespan calls stop() and then cancels the monitor task       *)
(***************************************************************************)
StopBegin ==
  /\ stop_pc = "serving"
  /\ Poll.pc # "not_started"
  /\ running' = FALSE
  /\ stop_pc' = IF db_session = "open" THEN "closing" ELSE "closed"
  /\ UNCHANGED <<db_session, monitored, registered, market_info, cache,
                 alert_cooldowns, pollVars, ruleVars, task, interrupted,
                 budgets, loopHist, overlap>>

\* `await self._db_session.close()` returned
StopCloseSession ==
  /\ stop_pc = "closing"
  /\ db_session' = "none"
  /\ stop_pc' = "closed"
  /\ UNCHANGED <<running, monitored, registered, market_info, cache,
                 alert_cooldowns, pollVars, ruleVars, task, interrupted,
                 budgets, loopHist, overlap>>

\* `monitor_task.cancel()`: CancelledError is thrown into the poll task at
\* the await it is suspended in
Cancel ==
  /\ stop_pc = "closed"
  /\ stop_pc' = "stopped"
  /\ IF Poll.pc = "halted"
     THEN UNCHANGED <<task, interrupted>>
     ELSE /\ SetPoll([Poll EXCEPT !.pc = "cancelled"])
          /\ interrupted' = InRecalc("poll")
  /\ UNCHANGED <<service, cache, alert_cooldowns, pollVars, ruleVars,
                 budgets, loopHist, overlap>>

Pipeline(t) ==
  \/ FetchReturn(t)
  \/ BroadcastReturn(t)
  \/ LegacySendReturn(t)
  \/ QueryReturn(t)
  \/ CommitReturn(t)
  \/ Dispatch(t)

PollLoop ==
  \/ Start
  \/ MarketReturn
  \/ InitLoopNext
  \/ LoopTop
  \/ MktLoopNext
  \/ PosCheck
  \/ PosLoopNext
  \/ PollReturn
  \/ Wake

ApiRequests ==
  \/ \E a \in Accounts : ApiAdd(a)
  \/ ApiReturn
  \/ \E a \in Accounts : ApiRemove(a)

PushUpdates ==
  \/ \E a \in Accounts, data \in RawValues : WsSubaccountMessage(a, data)
  \/ WsMarketsLoaded
  \/ \E p \in PriceValues \cup {0} : WsMarketsMessage(p)
  \/ WsLoopNext
  \/ WsReturn

Shutdown ==
  \/ StopBegin
  \/ StopCloseSession
  \/ Cancel

\* The service as it is wired: start() runs the REST polling loop only (the
\* push listener is never started), and API requests interleave with it.
Next ==
  \/ PollLoop
  \/ Pipeline("poll")
  \/ ApiRequests
  \/ Pipeline("api")

Spec == Init /\ [][Next]_vars

\* The polling loop and the application shutdown (lifespan exit)
NextStop ==
  \/ PollLoop
  \/ Pipeline("poll")
  \/ Shutdown

SpecStop == Init /\ [][NextStop]_vars

\* The polling loop on its own, over more iterations
InitPoll ==
  InitCommon /\ tick_limit = MaxPollTicks /\ alert_rules = NoStoredRules

NextPoll ==
  \/ PollLoop
  \/ Pipeline("poll")

SpecPoll == InitPoll /\ [][NextPoll]_vars

\* The polling loop together with the push-driven handlers
NextPush ==
  \/ PollLoop
  \/ Pipeline("poll")
  \/ PushUpdates
  \/ Pipeline("ws")

SpecPush == Init /\ [][NextPush]_vars

\* The legacy engine called directly: evaluate_liquidation_risk on chosen
\* figures for either account, with the wall clock advancing between calls
LegacyDistances == (-1 .. MaxDistance) \cup {Inf}
LegacyThresholds == 1 .. MaxDistance

LegacyEvaluate(a, d, T) ==
  /\ legacy_call.n < MaxEvaluations
  /\ LET alert == evaluate_liquidation_risk(alert_cooldowns, a, d, T, clock)
     IN /\ alert_cooldowns' = cooldowns_after(alert_cooldowns, a, alert, clock)
        /\ legacy_call' =
             [n |-> legacy_call.n + 1, acct |-> a, distance |-> d,
              threshold |-> T, at |-> clock, last |-> alert_cooldowns[a],
              cooling |-> {k \in AlertTypes :
                             ~ should_alert(alert_cooldowns, a, k, clock)},
              result |-> alert]
  /\ UNCHANGED <<service, cache, markets_counter, positions_counter, tick,
                 tick_limit, tick_events, clock, ruleVars, stopVars, budgets,
                 task, loopHist, overlap, direct_call, last_alert_times,
                 alert_rules, rule_req>>

LegacyWait ==
  /\ clock < ALERT_COOLDOWN_SECONDS
  /\ clock' = clock + ALERT_COOLDOWN_SECONDS \div 2
  /\ UNCHANGED <<service, cache, alert_cooldowns, markets_counter,
                 positions_counter, tick, tick_limit, callVars, tick_events,
                 ruleVars, stopVars, budgets, task, loopHist, overlap>>

NextLegacy ==
  \/ \E a \in Accounts, d \in LegacyDistances, T \in LegacyThresholds :
       LegacyEvaluate(a, d, T)
  \/ LegacyWait

SpecLegacy == Init /\ [][NextLegacy]_vars

\* The rule evaluator's cooldown functions called directly, with the wall
\* clock advancing between calls
Recorded == {k \in CooldownKeys : last_alert_times[k] # NeverAlerted}

RuleRecordAlert(r, a) ==
  /\ cooldown_key(r, a) \in Recorded \/ Cardinality(Recorded) < MaxRecords
  /\ last_alert_times' =
       AlertRuleEvaluator_record_alert(last_alert_times, r, a, clock)
  /\ direct_call' = [fn |-> "record_alert", rule |-> r, acct |-> a,
                     at |-> clock]
  /\ UNCHANGED <<monitorVars, clock, legacy_call, alert_rules, rule_req>>

RuleShouldAlert(r, a) ==
  /\ direct_call' =
       [fn |-> "should_alert", rule |-> r, acct |-> a, at |-> clock,
        last |-> last_alert_times[cooldown_key(r, a)],
        result |-> AlertRuleEvaluator_should_alert(last_alert_times, r, a,
                                                   clock)]
  /\ UNCHANGED <<monitorVars, clock, legacy_call, last_alert_times,
                 alert_rules, rule_req>>

CooldownWait ==
  /\ clock <= default_cooldown_seconds
  /\ clock' = clock + default_cooldown_seconds \div 2
  /\ UNCHANGED <<monitorVars, callVars>>

NextCooldown ==
  \/ \E r \in Rules, a \in Accounts : RuleRecordAlert(r, a)
  \/ \E r \in Rules, a \in Accounts : RuleShouldAlert(r, a)
  \/ CooldownWait

SpecCooldown == Init /\ [][NextCooldown]_vars

\* The rules API: two requests at a time, for a user who is one rule short
\* of the limit
RulesAtStart == active_rule_limit - 1

InitRules ==
  /\ InitCommon
  /\ tick_limit = MaxTicks
  /\ alert_rules = [NoStoredRules EXCEPT !.others = RulesAtStart]

rulesUnchanged ==
  <<monitorVars, clock, legacy_call, direct_call, last_alert_times>>

\* create_alert_rule up to AlertRuleCRUD.create: the body has passed the
\* schema, the rules are counted, the references are checked
CreateBegin(q, body, held) ==
  /\ rule_req[q].pc = "idle"
  /\ Cardinality(FreeRows(alert_rules))
       > Cardinality({p \in Requests : rule_req[p].pc = "inserting"})
  /\ rule_req' =
       [rule_req EXCEPT ![q] =
          IF /\ validate_position_scope(body)
             /\ active_rules(alert_rules) < active_rule_limit
             /\ position_checks(body.scope, body.subaccount_id,
                                body.position_market, held)
          THEN [pc |-> "inserting", row |-> 0, body |-> body]
          ELSE IdleRequest]
  /\ UNCHANGED <<rulesUnchanged, alert_rules>>

\* AlertRuleCRUD.create commits the new row
CreateInserted(q) ==
  /\ rule_req[q].pc = "inserting"
  /\ LET n == CHOOSE m \in FreeRows(alert_rules) :
                \A k \in FreeRows(alert_rules) : m <= k
         body == rule_req[q].body
     IN alert_rules' =
          [alert_rules EXCEPT !.rows[n] =
             [scope |-> body.scope, position_market |-> body.position_market,
              subaccount_id |-> body.subaccount_id, archived |-> FALSE]]
  /\ rule_req' = [rule_req EXCEPT ![q] = IdleRequest]
  /\ UNCHANGED rulesUnchanged

\* update_alert_rule up to AlertRuleCRUD.update: the rule is read, the
\* values in effect after the update are checked
UpdateBegin(q, n, body, held) ==
  /\ rule_req[q].pc = "idle"
  /\ rule_req' =
       [rule_req EXCEPT ![q] =
          LET rule == alert_rules.rows[n] IN
          IF /\ rule # NoRow
             /\ position_checks(effective(body, rule, "scope"),
                                effective(body, rule, "subaccount_id"),
                                effective(body, rule, "position_market"),
                                held)
          THEN [pc |-> "updating", row |-> n, body |-> body]
          ELSE IdleRequest]
  /\ UNCHANGED <<rulesUnchanged, alert_rules>>

\* AlertRuleCRUD.update reads the rule again, assigns and commits
UpdateApplied(q) ==
  /\ rule_req[q].pc = "updating"
  /\ LET n == rule_req[q].row IN
     alert_rules' =
       IF alert_rules.rows[n] = NoRow THEN alert_rules
       ELSE [alert_rules EXCEPT !.rows[n] =
               updated_row(@, rule_req[q].body)]
  /\ rule_req' = [rule_req EXCEPT ![q] = IdleRequest]
  /\ UNCHANGED rulesUnchanged

\* delete_alert_rule
DeleteRule(n) ==
  /\ alert_rules.rows[n] # NoRow
  /\ alert_rules' = [alert_rules EXCEPT !.rows[n] = NoRow]
  /\ UNCHANGED <<rulesUnchanged, rule_req>>

\* archive_rule, run by the evaluator when the rule fires
ArchiveRule(n) ==
  /\ alert_rules.rows[n] # NoRow
  /\ ~ alert_rules.rows[n].archived
  /\ alert_rules' = [alert_rules EXCEPT !.rows[n].archived = TRUE]
  /\ UNCHANGED <<rulesUnchanged, rule_req>>

NextRules ==
  \/ \E q \in Requests, body \in CreateBodies, held \in SUBSET {"BTC-USD"} :
       CreateBegin(q, body, held)
  \/ \E q \in Requests : CreateInserted(q)
  \/ \E q \in Requests, n \in RowIds, body \in UpdateBodies,
        held \in SUBSET {"BTC-USD"} : UpdateBegin(q, n, body, held)
  \/ \E q \in Requests : UpdateApplied(q)
  \/ \E n \in RowIds : DeleteRule(n)
  \/ \E n \in RowIds : ArchiveRule(n)

SpecRules == InitRules /\ [][NextRules]_vars

\* Functions of the rule evaluator called directly on chosen arguments
FloatSamples == (0 - MaxFloatSample) .. MaxFloatSample
ComparisonSamples == Comparisons \cup {"!="}

CallCompareValues(actual_value, threshold, comparison) ==
  /\ direct_call = NoDirectCall
  /\ direct_call' =
       [fn |-> "_compare_values", actual_value |-> actual_value,
        threshold |-> threshold, comparison |-> comparison,
        result |-> _compare_values(actual_value, threshold, comparison)]
  /\ UNCHANGED <<monitorVars, clock, legacy_call, last_alert_times,
                 alert_rules, rule_req>>

Markets == {"BTC-USD", "ETH-USD"}

ConditionTypeSamples ==
  {"liquidation_distance", "margin_ratio", "position_size",
   "position_pnl_percent", "position_size_usd", "position_funding_payment",
   "no_such_condition"}

RuleSamples ==
  [scope : {"account", "position"},
   position_market : Markets \cup {NoMarket},
   condition_type : ConditionTypeSamples,
   comparison : ComparisonSamples,
   threshold_value : {0, 10}]

\* an account with one BTC position; an account without positions; an
\* object whose figures are missing; a position with figures left out
MetricsSamples ==
  {[liquidation_distance_percent |-> 10, margin_ratio |-> 110,
    equity |-> 21, free_collateral |-> 5,
    position_metrics |->
      [m \in {"BTC-USD"} |->
         [position_value |-> -40, unrealized_pnl |-> -20,
          unrealized_pnl_percent |-> -50, size |-> -20,
          liquidation_distance_percent |-> 10, leverage |-> 2,
          entry_price |-> 1, oracle_price |-> 2]]],
   [liquidation_distance_percent |-> Inf, margin_ratio |-> Inf,
    equity |-> 21, free_collateral |-> 21, position_metrics |-> <<>>],
   [liquidation_distance_percent |-> Null, margin_ratio |-> Null,
    equity |-> Null, free_collateral |-> Null, position_metrics |-> <<>>],
   [liquidation_distance_percent |-> 0, margin_ratio |-> 100,
    equity |-> 10, free_collateral |-> 0,
    position_metrics |->
      [m \in {"BTC-USD"} |-> [position_value |-> Null, size |-> 10]]]}

CallEvaluateCondition(rule, metrics) ==
  /\ direct_call = NoDirectCall
  /\ direct_call' =
       [fn |-> "evaluate_condition", rule |-> rule, metrics |-> metrics,
        result |-> call_evaluate_condition(rule, metrics)]
  /\ UNCHANGED <<monitorVars, clock, legacy_call, last_alert_times,
                 alert_rules, rule_req>>

\* NotificationDispatcher.send_alert called directly; a legacy alert is
\* also written to the alert history, a rule alert is not
ChannelSamples ==
  [channel_type : {"telegram", "discord", "sms"},
   send : {"True", "False", "raise"}]

ChannelLists ==
  UNION {[1..n -> ChannelSamples] : n \in 0..MaxChannels}

CallSendAlert(channels, has_rule, commit_ok) ==
  /\ direct_call = NoDirectCall
  /\ direct_call' =
       [fn |-> "send_alert", channels |-> channels,
        started |-> sends_started(channels),
        history_saved |-> ~ has_rule /\ commit_ok,
        result |-> send_alert(channels)]
  /\ UNCHANGED <<monitorVars, clock, legacy_call, last_alert_times,
                 alert_rules, rule_req>>

\* the caller drops the result
CallDone ==
  /\ direct_call # NoDirectCall
  /\ direct_call' = NoDirectCall
  /\ UNCHANGED <<monitorVars, clock, legacy_call, last_alert_times,
                 alert_rules, rule_req>>

(***************************************************************************)
(* The alert record evaluate_rules_for_subaccount builds for one rule: the  *)
(* figure get_actual_value reads and the metadata made of                  *)
(* RiskMetrics.to_dict and that figure.                                    *)
(***************************************************************************)
\* get_actual_value leaves with an exception: float(None)
get_actual_value_raises(rule, metrics) ==
  /\ rule.condition_type \in DOMAIN AccountFigure
  /\ metrics[AccountFigure[rule.condition_type]] = Null

\* get_actual_value when it returns; unlike evaluate_condition it does not
\* look at the rule's scope
get_actual_value(rule, metrics) ==
  LET ct == rule.condition_type
      position_market == rule.position_market
  IN IF ct \in DOMAIN AccountFigure THEN float(metrics[AccountFigure[ct]])
     ELSE IF ct = "position_size"
     THEN float(total_position_size(metrics.position_metrics,
                                    DOMAIN metrics.position_metrics))
     ELSE IF ct \in DOMAIN PositionFigure
     THEN IF position_market # NoMarket
             /\ position_market \in DOMAIN metrics.position_metrics
          THEN LET v == get_or_zero(metrics.position_metrics[position_market],
                                    PositionFigure[ct])
               IN float(IF ct \in AbsoluteFigures THEN Abs(v) ELSE v)
          ELSE 0
     ELSE 0

NoRuleAlert == [fired |-> FALSE]

\* the RuleAlert of one turn of the loop, NoRuleAlert when the turn makes
\* none: the figure could not be read or the condition is not met
rule_alert(rule, metrics) ==
  IF get_actual_value_raises(rule, metrics) THEN NoRuleAlert
  ELSE IF ~ evaluate_condition(rule, metrics) THEN NoRuleAlert
  ELSE [fired |-> TRUE,
        metadata |->
          [margin_ratio |-> to_dict(metrics.margin_ratio),
           liquidation_distance_percent |->
             to_dict(metrics.liquidation_distance_percent),
           condition_type |-> rule.condition_type,
           threshold_value |-> rule.threshold_value,
           actual_value |-> get_actual_value(rule, metrics),
           comparison |-> rule.comparison]]

CallRuleAlert(rule, metrics) ==
  /\ direct_call = NoDirectCall
  /\ direct_call' =
       [fn |-> "rule_alert", rule |-> rule, metrics |-> metrics,
        result |-> rule_alert(rule, metrics)]
  /\ UNCHANGED <<monitorVars, clock, legacy_call, last_alert_times,
                 alert_rules, rule_req>>

NextCalls ==
  \/ \E x \in FloatSamples, y \in FloatSamples, c \in ComparisonSamples :
       CallCompareValues(x, y, c)
  \/ \E rule \in RuleSamples, metrics \in MetricsSamples :
       CallEvaluateCondition(rule, metrics)
  \/ \E rule \in RuleSamples, metrics \in MetricsSamples :
       CallRuleAlert(rule, metrics)
  \/ \E channels \in ChannelLists, has_rule \in BOOLEAN, commit_ok \in BOOLEAN :
       CallSendAlert(channels, has_rule, commit_ok)
  \/ CallDone

SpecCalls == Init /\ [][NextCalls]_vars

(***************************************************************************)
(* The send loop of evaluate_custom_alert_rules over the alerts one        *)
(* evaluation returned, with the channel lookup of get_channels_for_rule.  *)
(* The pass is held in direct_call.                                        *)
(***************************************************************************)
ChannelIds == {"c1", "c2"}
ChannelIdLists == UNION {[1..n -> ChannelIds] : n \in 0..MaxChannelIds}
AlertedRules == <<"r1", "r2">>

\* the ids NotificationChannelCRUD.get_by_id was asked for: all of them, or
\* those before the lookup that raised (raise_at = 0: none raised)
looked_up(channel_ids, raise_at) ==
  IF raise_at = 0 THEN channel_ids ELSE SubSeq(channel_ids, 1, raise_at - 1)

RECURSIVE until_missing(_, _)
until_missing(channel_ids, existing) ==
  IF channel_ids = <<>> \/ Head(channel_ids) \notin existing THEN <<>>
  ELSE <<Head(channel_ids)>> \o until_missing(Tail(channel_ids), existing)

\* variant: the lookup stops at the first channel that does not exist
get_channels_for_rule_StopsAtMissing(existing, channel_ids, raise_at) ==
  until_missing(looked_up(channel_ids, raise_at), existing)

get_channels_for_rule(existing, channel_ids, raise_at) ==
  FilterSeq(looked_up(channel_ids, raise_at), existing)

SendPass == direct_call.fn = "evaluate_custom_alert_rules"

\* evaluate_rules_for_subaccount returned rule_alerts
SendLoopBegin(rule_alerts, channel_ids, existing) ==
  /\ direct_call = NoDirectCall
  /\ direct_call' =
       [fn |-> "evaluate_custom_alert_rules", rule_alerts |-> rule_alerts,
        channel_ids |-> channel_ids, existing |-> existing,
        to_send |-> rule_alerts, lookup_raised |-> {}, skipped |-> {},
        history |-> {}, dispatched |-> [r \in {} |-> <<>>],
        failed |-> FALSE]
  /\ UNCHANGED <<monitorVars, clock, legacy_call, last_alert_times,
                 alert_rules, rule_req>>

\* one turn of `for rule_alert in rule_alerts`; a raise of flush or commit
\* leaves the loop through the handler, which rolls back
SendLoopTurn ==
  /\ SendPass
  /\ direct_call.to_send # <<>>
  /\ LET r == Head(direct_call.to_send)
         ids == direct_call.channel_ids[r]
     IN \E raise_at \in 0..Len(ids), flush_ok \in BOOLEAN,
           commit_ok \in BOOLEAN :
          LET channels == get_channels_for_rule(direct_call.existing, ids,
                                                raise_at)
              looked == [direct_call EXCEPT
                           !.lookup_raised =
                             IF raise_at = 0 THEN @ ELSE @ \cup {r}]
          IN direct_call' =
               IF channels = <<>>
               THEN [looked EXCEPT !.skipped = @ \cup {r},
                                   !.to_send = Tail(@)]
               ELSE IF ~ flush_ok
               THEN [looked EXCEPT !.failed = TRUE, !.to_send = <<>>]
               ELSE IF ~ commit_ok
               THEN [looked EXCEPT
                       !.dispatched = (r :> channels) @@ @,
                       !.failed = TRUE, !.to_send = <<>>]
               ELSE [looked EXCEPT
                       !.dispatched = (r :> channels) @@ @,
                       !.history = @ \cup {r}, !.to_send = Tail(@)]
  /\ UNCHANGED <<monitorVars, clock, legacy_call, last_alert_times,
                 alert_rules, rule_req>>

\* evaluate_custom_alert_rules returns
SendLoopReturn ==
  /\ SendPass
  /\ direct_call.to_send = <<>>
  /\ direct_call' = NoDirectCall
  /\ UNCHANGED <<monitorVars, clock, legacy_call, last_alert_times,
                 alert_rules, rule_req>>

AlertLists ==
  {FilterSeq(AlertedRules, S) : S \in SUBSET SeqToSet(AlertedRules)}

NextSend ==
  \/ \E rule_alerts \in AlertLists, existing \in SUBSET ChannelIds :
       \E channel_ids \in [SeqToSet(rule_alerts) -> ChannelIdLists] :
         SendLoopBegin(rule_alerts, channel_ids, existing)
  \/ SendLoopTurn
  \/ SendLoopReturn

SpecSend == Init /\ [][NextSend]_vars

(***************************************************************************)
(* Market normalizer (MonitorService._normalize_market_info) and the       *)
(* market table.  A payload entry is the exchange's record of one market,  *)
(* its liquidityTier fields flattened; Null stands for a key that is       *)
(* missing or null.  A Decimal fraction is counted in hundredths, and the  *)
(* inputs are chosen so that no quotient is rounded.                       *)
(***************************************************************************)
FractionUnit == 100
default_maintenance_margin_fraction == 3
default_initial_margin_fraction == 5

Max(x, y) == IF x >= y THEN x ELSE y
Min(x, y) == IF x <= y THEN x ELSE y

\* parse_decimal(info.get(k)) or parse_decimal(info.get(k2)), the second
\* spelling being absent: a zero is dropped like a missing value
parsed(value) == IF value = Null \/ value = 0 THEN Null ELSE value

\* variant: the scaled fraction is not capped
scaled_fraction_Uncapped(base, open_notional, lower_cap, upper_cap) ==
  base + (Max(0, ((open_notional - lower_cap) * FractionUnit)
                   \div (upper_cap - lower_cap))
            * (FractionUnit - base)) \div FractionUnit

\* the open-interest scaling of the normalizer: the factor has a floor of 0
\* and no ceiling, the result is capped at 1
scaled_fraction(base, open_notional, lower_cap, upper_cap) ==
  LET scaling_factor ==
        Max(0, ((open_notional - lower_cap) * FractionUnit)
                 \div (upper_cap - lower_cap))
      imf_increase ==
        Max(0, (scaling_factor * (FractionUnit - base)) \div FractionUnit)
  IN Min(base + imf_increase, FractionUnit)

\* one turn of `for market_id, info in items`
normalize_entry(info) ==
  LET maintenance_fraction == parsed(info.maintenanceMarginFraction)
      tier_base == parsed(info.baseImf)
      lower_cap == parsed(info.openInterestLowerCap)
      upper_cap == parsed(info.openInterestUpperCap)
      initial_fraction == parsed(info.initialMarginFraction)
      oracle_price == parsed(info.oraclePrice)
      open_interest == parsed(info.openInterest)
      open_notional ==
        IF parsed(info.openNotional) # Null THEN parsed(info.openNotional)
        ELSE IF open_interest # Null /\ oracle_price # Null
        THEN open_interest * oracle_price
        ELSE Null
      base_initial_fraction ==
        IF tier_base = Null THEN initial_fraction ELSE tier_base
      effective_initial_fraction ==
        IF /\ base_initial_fraction # Null
           /\ open_notional # Null
           /\ lower_cap # Null
           /\ upper_cap # Null
           /\ upper_cap > lower_cap
        THEN scaled_fraction(base_initial_fraction, open_notional,
                             lower_cap, upper_cap)
        ELSE IF initial_fraction # Null THEN initial_fraction
        ELSE IF tier_base # Null THEN tier_base
        ELSE default_initial_margin_fraction
  IN [maintenance_margin_fraction |-> maintenance_fraction,
      initial_margin_fraction |-> effective_initial_fraction,
      base_initial_margin_fraction |-> base_initial_fraction,
      open_interest_lower_cap |-> lower_cap,
      open_interest_upper_cap |-> upper_cap,
      open_interest |-> open_interest,
      open_notional |-> open_notional,
      oracle_price |-> oracle_price]

\* a payload is a function from some markets to their entries
_normalize_market_info(payload) ==
  [market_id \in DOMAIN payload |-> normalize_entry(payload[market_id])]

NoMarkets == [market_id \in {} |-> Null]

\* variant: the update stores the entry as it was normalized
carry_forward_Dropped(table, market_id, new_info) == new_info

\* process_markets_update: keep the known oracle price of a market whose
\* new entry has none
carry_forward(table, market_id, new_info) ==
  IF /\ market_id \in DOMAIN table
     /\ new_info.oracle_price = Null
     /\ table[market_id].oracle_price # Null
  THEN [new_info EXCEPT !.oracle_price = table[market_id].oracle_price]
  ELSE new_info

\* process_markets_update up to self.market_info.update(normalized)
process_markets_update(table, markets) ==
  LET normalized == _normalize_market_info(markets)
  IN [market_id \in DOMAIN normalized |->
        carry_forward(table, market_id, normalized[market_id])]
     @@ table

\* variant: whatever the reply normalizes to replaces the table
ensure_market_info_AnyReply(table, data) == _normalize_market_info(data)

\* ensure_market_info(refresh=True): a usable reply replaces the table
ensure_market_info(table, data) ==
  LET markets == _normalize_market_info(data)
  IN IF DOMAIN markets # {} THEN markets ELSE table

NoInfo ==
  [maintenanceMarginFraction |-> Null, baseImf |-> Null,
   openInterestLowerCap |-> Null, openInterestUpperCap |-> Null,
   initialMarginFraction |-> Null, oraclePrice |-> Null,
   openInterest |-> Null, openNotional |-> Null]

\* entries of a markets message: with and without the oracle price
PushInfos ==
  {[NoInfo EXCEPT !.oraclePrice = p, !.initialMarginFraction = f] :
     p \in {Null, 0} \cup (1..MaxPrice), f \in {Null, 20}}

MarketPayloads ==
  UNION {[S -> PushInfos] : S \in SUBSET Markets}

MarketsCall ==
  direct_call.fn \in {"ensure_market_info", "process_markets_update"}

\* start(): the table is loaded over REST
MarketsLoad(data) ==
  /\ direct_call = NoDirectCall
  /\ direct_call' =
       [fn |-> "ensure_market_info", markets_data |-> data,
        table |-> ensure_market_info(NoMarkets, data)]
  /\ UNCHANGED <<monitorVars, clock, legacy_call, last_alert_times,
                 alert_rules, rule_req>>

\* polling_loop: the table is refreshed over REST, then
\* _recalculate_all_with_fresh_prices reads it; `raised` stands for an
\* exception in get_markets or in the normalization, which
\* ensure_market_info logs
MarketsRefresh(data, raised) ==
  /\ MarketsCall
  /\ LET table == IF raised THEN direct_call.table
                  ELSE ensure_market_info(direct_call.table, data)
     IN direct_call' =
          [fn |-> "ensure_market_info", markets_data |-> data,
           table |-> table, raised |-> raised, recalculated_with |-> table]
  /\ UNCHANGED <<monitorVars, clock, legacy_call, last_alert_times,
                 alert_rules, rule_req>>

\* a v4_markets message arrives
MarketsPush(markets) ==
  /\ MarketsCall
  /\ direct_call' =
       [fn |-> "process_markets_update", markets_data |-> markets,
        table |->
          IF DOMAIN markets = {} THEN direct_call.table
          ELSE process_markets_update(direct_call.table, markets)]
  /\ UNCHANGED <<monitorVars, clock, legacy_call, last_alert_times,
                 alert_rules, rule_req>>

NextMarkets ==
  \/ \E data \in MarketPayloads : MarketsLoad(data)
  \/ \E data \in MarketPayloads, raised \in BOOLEAN :
       MarketsRefresh(data, raised)
  \/ \E markets \in MarketPayloads : MarketsPush(markets)

SpecMarkets == Init /\ [][NextMarkets]_vars

(***************************************************************************)
(* Risk calculator in full (services/risk_calculator.py), called directly. *)
(* Amounts are whole dollars, fractions hundredths; a position carries the *)
(* keys size, entryPrice, maintenanceMarginRequirement, liquidationPrice   *)
(* and marginMode, and Null stands for a key that is missing.              *)
(***************************************************************************)
NotANumber == -999999

RECURSIVE SumOver(_, _)
SumOver(f, S) ==
  IF S = {} THEN 0
  ELSE LET x == CHOOSE y \in S : TRUE IN f[x] + SumOver(f, S \ {x})

\* markets.get(market); a table that is empty or has no such market reads
\* like an entry without any key
NoEntry ==
  [maintenance_margin_fraction |-> Null, initial_margin_fraction |-> Null,
   base_initial_margin_fraction |-> Null, open_interest_lower_cap |-> Null,
   open_interest_upper_cap |-> Null, open_interest |-> Null,
   open_notional |-> Null, oracle_price |-> Null]

MarketInfoOf(market, markets) ==
  IF market \in DOMAIN markets THEN markets[market] ELSE NoEntry

_resolve_market_fraction(market, markets) ==
  LET info == MarketInfoOf(market, markets) IN
  IF info.maintenance_margin_fraction = Null
  THEN default_maintenance_margin_fraction
  ELSE info.maintenance_margin_fraction

_resolve_initial_fraction(market, markets) ==
  LET info == MarketInfoOf(market, markets) IN
  IF info.initial_margin_fraction = Null
  THEN default_initial_margin_fraction
  ELSE info.initial_margin_fraction

calculate_effective_imf(market, markets) ==
  LET base_imf == _resolve_initial_fraction(market, markets)
      info == MarketInfoOf(market, markets)
  IN IF info.open_interest = Null \/ info.oracle_price = Null
     THEN base_imf
     ELSE IF \/ info.open_interest_lower_cap = Null
             \/ info.open_interest_upper_cap = Null
     THEN base_imf
     ELSE IF info.open_interest_upper_cap = info.open_interest_lower_cap
     THEN base_imf
     ELSE
       LET open_notional == Abs(info.open_interest * info.oracle_price)
           lower_cap == info.open_interest_lower_cap
           upper_cap == info.open_interest_upper_cap
           scaling_factor ==
             Max(0, Min(FractionUnit,
                        ((open_notional - lower_cap) * FractionUnit)
                          \div (upper_cap - lower_cap)))
           imf_increase ==
             Max(0, (scaling_factor * (FractionUnit - base_imf))
                      \div FractionUnit)
       IN Min(base_imf + imf_increase, FractionUnit)

\* the price both requirement functions use: the table's oracle price, else
\* the position's entryPrice
requirement_price(market, position, markets) ==
  LET info == MarketInfoOf(market, markets) IN
  IF info.oracle_price # Null THEN info.oracle_price
  ELSE position.entryPrice

\* details[market] of calculate_maintenance_requirement; Null when the
\* position is skipped (no price, no notional, or a size that is no number)
maintenance_detail(market, position, markets) ==
  LET price_value == requirement_price(market, position, markets) IN
  IF position.size = NotANumber \/ price_value = Null THEN Null
  ELSE IF Abs(position.size) * price_value = 0 THEN Null
  ELSE (Abs(position.size) * price_value
          * _resolve_market_fraction(market, markets)) \div FractionUnit

initial_detail(market, position, markets) ==
  LET price_value == requirement_price(market, position, markets) IN
  IF position.size = NotANumber \/ price_value = Null THEN Null
  ELSE IF Abs(position.size) * price_value = 0 THEN Null
  ELSE (Abs(position.size) * price_value
          * calculate_effective_imf(market, markets)) \div FractionUnit

OrZero(x) == IF x = Null THEN 0 ELSE x

calculate_maintenance_requirement(positions, markets) ==
  SumOver([m \in DOMAIN positions |->
             OrZero(maintenance_detail(m, positions[m], markets))],
          DOMAIN positions)

calculate_initial_requirement(positions, markets) ==
  SumOver([m \in DOMAIN positions |->
             OrZero(initial_detail(m, positions[m], markets))],
          DOMAIN positions)


\* a Decimal quotient kept exact: numerator over a positive denominator
Quotient(num, den) ==
  IF den < 0 THEN [num |-> 0 - num, den |-> 0 - den]
  ELSE [num |-> num, den |-> den]

\* price > bound, for a price that is not None
Exceeds(price, bound) ==
  \/ price.num \div price.den > bound
  \/ price.num \div price.den = bound /\ price.num % price.den # 0

NoPrice == [num |-> 0, den |-> 0]

calculate_isolated_liquidation_price(equity, size, oracle, fraction) ==
  LET denominator == Abs(size) * fraction - size * FractionUnit IN
  IF denominator = 0 THEN NoPrice
  ELSE Quotient((equity - size * oracle) * FractionUnit, denominator)

calculate_cross_liquidation_price(equity, size, oracle, fraction, other) ==
  LET denominator == Abs(size) * fraction - size * FractionUnit IN
  IF denominator = 0 THEN NoPrice
  ELSE Quotient((equity - size * oracle - other) * FractionUnit, denominator)

max_liquidation_price == 10000000

\* variant: only the upper limit is applied
_sanitize_UpperLimitOnly(price) ==
  IF price = NoPrice THEN NoPrice
  ELSE IF Exceeds(price, max_liquidation_price) THEN NoPrice
  ELSE price

_sanitize(price) ==
  IF price = NoPrice THEN NoPrice
  ELSE IF price.num <= 0 THEN NoPrice
  ELSE IF Exceeds(price, max_liquidation_price) THEN NoPrice
  ELSE price

\* _safe_decimal(position.get("liquidationPrice") or ...)
reported_price(position) ==
  IF parsed(position.liquidationPrice) = Null THEN NoPrice
  ELSE Quotient(position.liquidationPrice, 1)

\* position_metrics[market] of calculate_risk_metrics, for a position whose
\* size is a number other than zero
\* The prices are kept as exact quotients: _safe_float rounds a Decimal
\* to the nearest float, which keeps the order and leaves zero and
\* 10,000,000 where they are.
position_record(market, position, equity, positions, markets) ==
  LET size == position.size
      maintenance_fraction == _resolve_market_fraction(market, markets)
      oracle_price == requirement_price(market, position, markets)
      requirement == OrZero(maintenance_detail(market, position, markets))
      initial_req == OrZero(initial_detail(market, position, markets))
      other_requirements ==
        Max(0, calculate_maintenance_requirement(positions, markets)
                 - requirement)
      isolated_price ==
        IF oracle_price = Null THEN NoPrice
        ELSE _sanitize(calculate_isolated_liquidation_price(
                         equity, size, oracle_price, maintenance_fraction))
      cross_price ==
        IF oracle_price = Null THEN NoPrice
        ELSE _sanitize(calculate_cross_liquidation_price(
                         equity, size, oracle_price, maintenance_fraction,
                         other_requirements))
      protocol_liquidation_price == _sanitize(reported_price(position))
      overrides == protocol_liquidation_price # NoPrice
  IN [margin_mode |-> position.marginMode,
      size |-> size,
      oracle_price |-> oracle_price,
      maintenance_requirement |->
        IF position.maintenanceMarginRequirement # Null
        THEN position.maintenanceMarginRequirement ELSE requirement,
      initial_requirement |-> initial_req,
      isolated_liquidation_price |->
        IF overrides /\ position.marginMode = "ISOLATED"
        THEN protocol_liquidation_price ELSE isolated_price,
      cross_liquidation_price |->
        IF overrides /\ position.marginMode # "ISOLATED"
        THEN protocol_liquidation_price ELSE cross_price,
      protocol_liquidation_price |-> protocol_liquidation_price]


NaN == -999998

\* the positions the loop of calculate_risk_metrics does not skip
counted(positions) ==
  {m \in DOMAIN positions :
     positions[m].size # NotANumber /\ positions[m].size # 0}

\* variant: the defaults say the account is at the liquidation boundary
default_metrics_AtBoundary ==
  [equity |-> 0, maintenance_requirement |-> 0, initial_requirement |-> 0,
   margin_ratio |-> 100, liquidation_distance_percent |-> 0,
   free_collateral |-> 0, position_metrics |-> <<>>, failed |-> TRUE]

\* the except branch: safe defaults
default_metrics ==
  [equity |-> 0, maintenance_requirement |-> 0, initial_requirement |-> 0,
   margin_ratio |-> Inf, liquidation_distance_percent |-> Inf,
   free_collateral |-> 0, position_metrics |-> <<>>, failed |-> TRUE]

\* an exception reaches the handler of calculate_risk_metrics: the equity
\* is no number, or a reported liquidation price is NaN and _sanitize
\* compares it
raises_inside(subaccount_data) ==
  \/ subaccount_data.equity = NotANumber
  \/ \E m \in counted(subaccount_data.positions) :
       subaccount_data.positions[m].liquidationPrice = NaN

RiskCalculator_calculate_risk_metrics(subaccount_data, markets) ==
  IF raises_inside(subaccount_data) THEN default_metrics
  ELSE
    LET equity == subaccount_data.equity
        positions == subaccount_data.positions
        computed == calculate_maintenance_requirement(positions, markets)
        initial_requirement ==
          calculate_initial_requirement(positions, markets)
        with_raw ==
          {m \in counted(positions) :
             positions[m].maintenanceMarginRequirement # Null}
        reported ==
          SumOver([m \in with_raw |->
                     positions[m].maintenanceMarginRequirement], with_raw)
        margin_ratio == calculate_margin_ratio(equity, computed)
    IN [equity |-> equity,
        maintenance_requirement |->
          IF with_raw # {} THEN reported ELSE computed,
        initial_requirement |-> initial_requirement,
        margin_ratio |-> margin_ratio,
        liquidation_distance_percent |->
          calculate_liquidation_distance(margin_ratio),
        free_collateral |->
          IF subaccount_data.free_collateral # Null
          THEN subaccount_data.free_collateral
          ELSE equity - initial_requirement,
        position_metrics |->
          [m \in counted(positions) |->
             position_record(m, positions[m], equity, positions, markets)],
        failed |-> FALSE]

\* markets payloads for the calculator: price and maintenance fraction.
\* Sizes of 20, prices that are multiples of 5 and equities that are
\* multiples of 90 keep every requirement and ratio of the samples exact.
RiskInfos ==
  {[NoInfo EXCEPT !.oraclePrice = p, !.maintenanceMarginFraction = f] :
     p \in {Null, 5 * MaxPrice}, f \in {Null, 50}}

RiskPayloads ==
  {NoMarkets} \cup {[m \in Markets |-> info] : info \in RiskInfos}

PositionSamples ==
  [size : {NotANumber, 0, -20, 20},
   entryPrice : {Null, 5},
   maintenanceMarginRequirement : {Null, 30},
   liquidationPrice : {Null, NaN, 0, 5, 2 * max_liquidation_price},
   marginMode : {"CROSS", "ISOLATED"}]

OtherPosition ==
  [size |-> 20, entryPrice |-> 5, maintenanceMarginRequirement |-> Null,
   liquidationPrice |-> Null, marginMode |-> "CROSS"]

PositionMaps ==
  {<<>>} \cup {("BTC-USD" :> p) : p \in PositionSamples}
         \cup {("BTC-USD" :> p) @@ ("ETH-USD" :> OtherPosition) :
                 p \in PositionSamples}

EquitySamples ==
  {NotANumber, 0, 90, 900, 2 * max_liquidation_price - 2000000}

AccountSamples ==
  [equity : EquitySamples, free_collateral : {Null},
   positions : PositionMaps]

CallRiskMetrics(subaccount_data, payload) ==
  /\ direct_call = NoDirectCall
  /\ direct_call' =
       [fn |-> "calculate_risk_metrics",
        subaccount_data |-> subaccount_data,
        markets |-> _normalize_market_info(payload),
        result |-> RiskCalculator_calculate_risk_metrics(
                     subaccount_data, _normalize_market_info(payload))]
  /\ UNCHANGED <<monitorVars, clock, legacy_call, last_alert_times,
                 alert_rules, rule_req>>

\* payload entries for the initial margin fraction.  A raw initial
\* fraction is the tier's base fraction or one already scaled, never below
\* the base; the caps 4 and 8 put the open notionals 2..10 below, at,
\* between and above them.
ImfInfos ==
  {info \in
     [maintenanceMarginFraction : {Null}, oraclePrice : {Null, 2},
      baseImf : {Null, 20, 60}, initialMarginFraction : {Null, 20, 60},
      openInterestLowerCap : {Null, 0, 4},
      openInterestUpperCap : {Null, 8},
      openInterest : {Null, 1, 3, 5},
      openNotional : {Null, 2, 4, 6, 8, 10}] :
     (info.baseImf # Null /\ info.initialMarginFraction # Null)
       => info.initialMarginFraction >= info.baseImf}

CallEffectiveImf(market, info) ==
  /\ direct_call = NoDirectCall
  /\ LET markets == _normalize_market_info("BTC-USD" :> info) IN
     direct_call' =
       [fn |-> "calculate_effective_imf", market |-> market,
        payload |-> info, markets |-> markets,
        result |-> calculate_effective_imf(market, markets)]
  /\ UNCHANGED <<monitorVars, clock, legacy_call, last_alert_times,
                 alert_rules, rule_req>>

\* calculate_initial_requirement for one position on BTC-USD, over the
\* table normalized from the payload
CallInitialRequirement(size, info) ==
  /\ direct_call = NoDirectCall
  /\ LET markets == _normalize_market_info("BTC-USD" :> info)
         positions == "BTC-USD" :> [OtherPosition EXCEPT !.size = size]
     IN direct_call' =
          [fn |-> "calculate_initial_requirement", size |-> size,
           payload |-> info, markets |-> markets,
           result |-> calculate_initial_requirement(positions, markets)]
  /\ UNCHANGED <<monitorVars, clock, legacy_call, last_alert_times,
                 alert_rules, rule_req>>

NextRisk ==
  \/ \E subaccount_data \in AccountSamples, payload \in RiskPayloads :
       CallRiskMetrics(subaccount_data, payload)
  \/ \E size \in {-20, 20}, info \in ImfInfos :
       CallInitialRequirement(size, info)
  \/ \E market \in Markets, info \in ImfInfos :
       CallEffectiveImf(market, info)
  \/ CallDone

SpecRisk == Init /\ [][NextRisk]_vars

(***************************************************************************)
(* One call of evaluate_custom_alert_rules followed step by step: the loop  *)
(* of evaluate_rules_for_subaccount over the user's rules, then the send    *)
(* loop over the alerts it returned.  The pass is held in direct_call, with *)
(* the order of what was done to each rule in `events`.                     *)
(***************************************************************************)
EvalRuleIds == <<"r1", "r2">>

\* account-level rules of the user, global or targeted at another account,
\* with or without a custom message
EvalRuleSamples ==
  {rule \in [scope : {"account"}, position_market : {NoMarket},
             condition_type : {"margin_ratio", "equity_drop"},
             comparison : {">"}, threshold_value : {10, 200},
             custom_message : BOOLEAN, subaccount_id : {NoAccount, "a2"}] :
     rule.condition_type = "equity_drop" => rule.threshold_value = 10}

\* complete figures; figures whose equity is missing; no positions
EvalMetricsSamples ==
  {[liquidation_distance_percent |-> 10, margin_ratio |-> 110,
    equity |-> 21, free_collateral |-> 5, position_metrics |-> <<>>],
   [liquidation_distance_percent |-> 10, margin_ratio |-> 110,
    equity |-> Null, free_collateral |-> 5, position_metrics |-> <<>>],
   [liquidation_distance_percent |-> Inf, margin_ratio |-> Inf,
    equity |-> 21, free_collateral |-> 21, position_metrics |-> <<>>]}

\* format_alert_message leaves with an exception: without a custom message
\* the text is built from float(metrics.equity), float(metrics.margin_ratio)
\* and float(metrics.liquidation_distance_percent)
format_alert_message_raises(rule, metrics) ==
  /\ ~ rule.custom_message
  /\ \/ metrics.equity = Null
     \/ metrics.margin_ratio = Null
     \/ metrics.liquidation_distance_percent = Null

\* variant: the message is formatted before the rule is archived
fired_events_FormatFirst(r) ==
  <<<<"format", r>>, <<"set_archived", r>>, <<"commit", r>>>>

\* what a turn does to a rule whose condition is met, in order: archive_rule
\* (the flag, then its commit), then format_alert_message
fired_events(r) ==
  <<<<"set_archived", r>>, <<"commit", r>>, <<"format", r>>>>

\* variant: archive_rule leaves the flag as it was
archive_rule_FlagNotSet(commit_ok) == FALSE

\* rule.archived after archive_rule: set when its commit went through,
\* cleared again by the rollback when the commit raised
archive_rule(commit_ok) == commit_ok

\* the events of a turn whose archive commit raised: archive_rule rolls
\* back right after the commit
rolled_back(events, r) ==
  LET k == CHOOSE i \in 1..Len(events) : events[i] = <<"commit", r>>
  IN SubSeq(events, 1, k) \o <<<<"rollback", r>>>>
       \o SubSeq(events, k + 1, Len(events))

EvalPass == direct_call.fn = "evaluate_rules_for_subaccount"

\* get_enabled_by_user returned user_rules; the call is for the user's
\* subaccount "a1"
EvalBegin(rules, metrics) ==
  /\ direct_call = NoDirectCall
  /\ direct_call' =
       [fn |-> "evaluate_rules_for_subaccount", rules |-> rules,
        metrics |-> metrics, user_rules |-> EvalRuleIds, acct |-> "a1",
        archived |-> [r \in SeqToSet(EvalRuleIds) |-> FALSE],
        archived_db |-> [r \in SeqToSet(EvalRuleIds) |-> FALSE],
        observed |-> {}, committed |-> {}, alerts |-> <<>>,
        events |-> <<>>, returned |-> FALSE, to_send |-> <<>>,
        calls |-> 1, silenced |-> {},
        consumed_at |-> [r \in SeqToSet(EvalRuleIds) |-> 0]]
  /\ UNCHANGED <<monitorVars, clock, legacy_call, last_alert_times,
                 alert_rules, rule_req>>

\* one turn of `for rule in user_rules`; an exception leaves the loop
\* through the handler and the alerts made so far are returned
EvalTurn ==
  /\ EvalPass
  /\ ~ direct_call.returned
  /\ direct_call.user_rules # <<>>
  /\ LET r == Head(direct_call.user_rules)
         rule == direct_call.rules[r]
         metrics == direct_call.metrics
         next == [direct_call EXCEPT !.user_rules = Tail(@)]
         left == [direct_call EXCEPT !.user_rules = <<>>]
     IN \E commit_ok \in BOOLEAN :
          direct_call' =
            IF direct_call.archived[r]
               \/ (rule.subaccount_id # NoAccount
                   /\ rule.subaccount_id # direct_call.acct)
            THEN next
            ELSE IF get_actual_value_raises(rule, metrics) THEN left
            ELSE IF ~ evaluate_condition(rule, metrics) THEN next
            ELSE
              LET fired ==
                    [next EXCEPT
                       !.observed = @ \cup {r},
                       !.archived[r] = archive_rule(commit_ok),
                       !.archived_db[r] = archive_rule(commit_ok),
                       !.committed = IF commit_ok THEN @ \cup {r} ELSE @,
                       !.events =
                         @ \o IF commit_ok THEN fired_events(r)
                              ELSE rolled_back(fired_events(r), r)]
              IN IF format_alert_message_raises(rule, metrics)
                 THEN [fired EXCEPT !.user_rules = <<>>]
                 ELSE [fired EXCEPT !.alerts = Append(@, r),
                                    !.events = Append(@, <<"alert", r>>)]
  /\ UNCHANGED <<monitorVars, clock, legacy_call, last_alert_times,
                 alert_rules, rule_req>>

\* evaluate_rules_for_subaccount returns its alerts to
\* evaluate_custom_alert_rules
EvalReturn ==
  /\ EvalPass
  /\ ~ direct_call.returned
  /\ direct_call.user_rules = <<>>
  /\ direct_call' = [direct_call EXCEPT !.returned = TRUE,
                                        !.to_send = direct_call.alerts]
  /\ UNCHANGED <<monitorVars, clock, legacy_call, last_alert_times,
                 alert_rules, rule_req>>

\* variant: the history row is written before the channels are looked at
send_events_HistoryFirst(outcome, r) ==
  CASE outcome = "no_channels" -> <<<<"history", r>>>>
    [] outcome = "flush_failed" -> <<<<"history", r>>>>
    [] outcome = "commit_failed" -> <<<<"history", r>>, <<"send", r>>>>
    [] outcome = "sent" ->
         <<<<"history", r>>, <<"send", r>>, <<"broadcast", r>>>>

\* what a turn of the send loop does for an alert, in order: nothing
\* without channels; else the history row and its flush, the send and its
\* commit, the broadcast to subscribers
send_events(outcome, r) ==
  CASE outcome = "no_channels" -> <<>>
    [] outcome = "flush_failed" -> <<<<"history", r>>>>
    [] outcome = "commit_failed" -> <<<<"history", r>>, <<"send", r>>>>
    [] outcome = "sent" ->
         <<<<"history", r>>, <<"send", r>>, <<"broadcast", r>>>>

\* one turn of `for rule_alert in rule_alerts`; a rule whose channels could
\* not be resolved once keeps its channel list, so they cannot be resolved
\* later either, and a rule with channels keeps them; consumed_at is the
\* length of the log when a rule archived in the database was first passed
\* over for want of channels
EvalSendTurn ==
  /\ EvalPass
  /\ direct_call.returned
  /\ direct_call.to_send # <<>>
  /\ LET r == Head(direct_call.to_send) IN
     \E outcome \in DispatchOutcomes :
       /\ r \in direct_call.silenced => outcome = "no_channels"
       /\ <<"history", r>> \in SeqToSet(direct_call.events)
            => outcome # "no_channels"
       /\ direct_call' =
            [direct_call EXCEPT
               !.to_send = IF outcome \in {"no_channels", "sent"}
                           THEN Tail(@) ELSE <<>>,
               !.silenced = IF outcome = "no_channels"
                            THEN @ \cup {r} ELSE @,
               !.consumed_at[r] =
                 IF outcome = "no_channels" /\ @ = 0
                    /\ direct_call.archived_db[r]
                 THEN Len(direct_call.events) ELSE @,
               !.events = @ \o send_events(outcome, r)]
  /\ UNCHANGED <<monitorVars, clock, legacy_call, last_alert_times,
                 alert_rules, rule_req>>

\* evaluate_custom_alert_rules returns
EvalDone ==
  /\ EvalPass
  /\ direct_call.returned
  /\ direct_call.to_send = <<>>
  /\ direct_call' = NoDirectCall
  /\ UNCHANGED <<monitorVars, clock, legacy_call, last_alert_times,
                 alert_rules, rule_req>>

\* the next call of evaluate_custom_alert_rules, for any of the user's
\* accounts, with the same figures: get_enabled_by_user leaves out the rules
\* archived in the database, and a rule whose archive commit was rolled
\* back is armed; as many calls are followed as the user has accounts
EvalAgain(a) ==
  /\ EvalPass
  /\ direct_call.returned
  /\ direct_call.to_send = <<>>
  /\ direct_call.calls < Cardinality(Accounts)
  /\ direct_call' =
       [direct_call EXCEPT
          !.calls = @ + 1,
          !.acct = a,
          !.user_rules =
            FilterSeq(EvalRuleIds,
                      {r \in SeqToSet(EvalRuleIds) :
                         ~ direct_call.archived_db[r]}),
          !.archived = direct_call.archived_db,
          !.observed = {}, !.committed = {}, !.alerts = <<>>,
          !.returned = FALSE]
  /\ UNCHANGED <<monitorVars, clock, legacy_call, last_alert_times,
                 alert_rules, rule_req>>

NextEval ==
  \/ \E rules \in [SeqToSet(EvalRuleIds) -> EvalRuleSamples],
        metrics \in EvalMetricsSamples :
       EvalBegin(rules, metrics)
  \/ EvalTurn
  \/ EvalReturn
  \/ EvalSendTurn
  \/ \E a \in Accounts : EvalAgain(a)
  \/ EvalDone

SpecEval == Init /\ [][NextEval]_vars

(***************************************************************************)
(* The accesses to MonitorService._subaccount_snapshots, one action per     *)
(* place of the source that reads or writes the map.  A block               *)
(* `async with self._status_lock:` holds no await, so the access inside it  *)
(* is one step taken with the lock held.  direct_call holds the map and     *)
(* the latest access.                                                       *)
(***************************************************************************)
\* a snapshot is told by the `source` it was cached with
SnapshotSources == {"rest_poll", "oracle_recalc", "markets_ws"}
NoSnapshots == [a \in Accounts |-> "none"]

CachePass == direct_call.fn = "_subaccount_snapshots"

\* the map before an access: empty after construction
snapshots_now == IF CachePass THEN direct_call.snapshots ELSE NoSnapshots

CacheAccess(snapshots, function, key, kind, holds_lock) ==
  /\ direct_call \in {NoDirectCall} \/ CachePass
  /\ direct_call' =
       [fn |-> "_subaccount_snapshots", snapshots |-> snapshots,
        function |-> function, key |-> key, kind |-> kind,
        holds_lock |-> holds_lock]
  /\ UNCHANGED <<monitorVars, clock, legacy_call, last_alert_times,
                 alert_rules, rule_req>>

\* _cache_status: `async with self._status_lock:` around the assignment
CacheStatusWrite(a, source) ==
  CacheAccess([snapshots_now EXCEPT ![a] = source], "_cache_status", a,
              "write", TRUE)

\* _get_cached_status: `async with self._status_lock:` around the get
GetCachedStatusRead(a) ==
  CacheAccess(snapshots_now, "_get_cached_status", a, "read", TRUE)

\* _recalculate_all_with_fresh_prices: the list of items is taken under the
\* lock
FreshPricesRead ==
  CacheAccess(snapshots_now, "_recalculate_all_with_fresh_prices",
              NoAccount, "read", TRUE)

\* add_subaccount: the pop under the lock
AddSubaccountPop(a) ==
  CacheAccess([snapshots_now EXCEPT ![a] = "none"], "add_subaccount", a,
              "write", TRUE)

\* remove_subaccount: the pop under the lock
RemoveSubaccountPop(a) ==
  CacheAccess([snapshots_now EXCEPT ![a] = "none"], "remove_subaccount",
              a, "write", TRUE)

\* _recalculate_all_positions: `list(self._subaccount_snapshots.items())`
\* in the loop header, with no `async with` around it
AllPositionsRead ==
  CacheAccess(snapshots_now, "_recalculate_all_positions", NoAccount,
              "read", FALSE)

NextCache ==
  \/ \E a \in Accounts, source \in SnapshotSources :
       CacheStatusWrite(a, source)
  \/ \E a \in Accounts : GetCachedStatusRead(a)
  \/ FreshPricesRead
  \/ \E a \in Accounts : AddSubaccountPop(a)
  \/ \E a \in Accounts : RemoveSubaccountPop(a)
  \/ AllPositionsRead

SpecCache == Init /\ [][NextCache]_vars


(***************************************************************************)
(* One stored rule under the operations that write it: update requests,    *)
(* the evaluator's archive_rule, and its deletion.                          *)
(***************************************************************************)
\* the rules create_alert_rule stores: armed, with a body that passed
\* AlertRuleCreate
StoredRuleSamples ==
  {[scope |-> body.scope, position_market |-> body.position_market,
    subaccount_id |-> body.subaccount_id, archived |-> FALSE] :
     body \in {b \in CreateBodies : validate_position_scope(b)}}

InitArchive ==
  /\ InitCommon
  /\ tick_limit = MaxTicks
  /\ \E rule \in StoredRuleSamples :
       alert_rules = [NoStoredRules EXCEPT !.rows[1] = rule]

NextArchive ==
  \/ \E q \in Requests, body \in UpdateBodies,
        held \in SUBSET {"BTC-USD"} : UpdateBegin(q, 1, body, held)
  \/ \E q \in Requests : UpdateApplied(q)
  \/ ArchiveRule(1)
  \/ DeleteRule(1)

SpecArchive == InitArchive /\ [][NextArchive]_vars


(***************************************************************************)
(* The legacy engine followed by send_alert, as update_subaccount_via_rest  *)
(* and _recalculate_all_with_fresh_prices call them, with the wall clock    *)
(* advancing between calls.  `dispatch` is where send_alert stands for the  *)
(* alert of the call, `before` where it stood for the call before.         *)
(***************************************************************************)
\* how send_alert ends: delivered to a channel; no channel configured; every
\* send failed; no database session
SendAlertOutcomes == {"delivered", "no_channels", "all_failed", "no_session"}

dispatch_of(call) ==
  IF "dispatch" \in DOMAIN call THEN call.dispatch ELSE "none"

\* alert = await self.alert_engine.evaluate(subaccount, metrics), up to the
\* call of send_alert
EvaluateThenSend(a, d) ==
  /\ legacy_call.n < MaxEvaluations
  /\ LET T == liquidation_threshold_percent(a)
         alert == evaluate_liquidation_risk(alert_cooldowns, a, d, T, clock)
     IN /\ alert_cooldowns' = cooldowns_after(alert_cooldowns, a, alert, clock)
        /\ legacy_call' =
             [n |-> legacy_call.n + 1, acct |-> a, distance |-> d,
              threshold |-> T, at |-> clock, last |-> alert_cooldowns[a],
              cooling |-> {k \in AlertTypes :
                             ~ should_alert(alert_cooldowns, a, k, clock)},
              result |-> alert,
              dispatch |-> IF alert = NoAlert THEN "none" ELSE "pending",
              before |-> dispatch_of(legacy_call)]
  /\ UNCHANGED <<service, cache, markets_counter, positions_counter, tick,
                 tick_limit, tick_events, clock, ruleVars, stopVars, budgets,
                 task, loopHist, overlap, direct_call, last_alert_times,
                 alert_rules, rule_req>>

\* send_alert returns
SendAlertReturn(outcome) ==
  /\ dispatch_of(legacy_call) = "pending"
  /\ legacy_call' = [legacy_call EXCEPT !.dispatch = outcome]
  /\ UNCHANGED <<service, cache, alert_cooldowns, markets_counter,
                 positions_counter, tick, tick_limit, tick_events, clock,
                 ruleVars, stopVars, budgets, task, loopHist, overlap,
                 direct_call, last_alert_times, alert_rules, rule_req>>

NextLegacySend ==
  \/ \E a \in Accounts, d \in LegacyDistances : EvaluateThenSend(a, d)
  \/ \E outcome \in SendAlertOutcomes : SendAlertReturn(outcome)
  \/ LegacyWait

SpecLegacySend == Init /\ [][NextLegacySend]_vars

(***************************************************************************)
(* Properties                                                              *)
(***************************************************************************)

\* C1 - Fire-once: once the archive commit of a rule has succeeded the rule
\* stays archived, and from then on no evaluation pass of any task, for any
\* account and any metrics, returns that rule again.
C1_FireOnce ==
  [][\A r \in Rules :
       archived_db[r] =>
         /\ archived_db'[r]
         /\ archived'[r]
         /\ \A t \in Tasks :
              r \in SeqToSet(task'[t].rule_alerts)
                => r \in SeqToSet(task[t].rule_alerts)]_vars

\* a pass ran over metrics that satisfy the archived rule r1 and returned
\* nothing
C1_ArchivedRuleSkipped ==
  \E t \in Tasks :
    /\ task[t].pc = "acct_done"
    /\ {"compute", "rules"} \subseteq task[t].did
    /\ archived_db["r1"]
    /\ evaluate_condition(RuleTable["r1"], RiskMetrics(task[t].metrics))
    /\ task[t].rule_alerts = <<>>

C3_RemovedHasNoSnapshot ==
  \A a \in registered \ monitored : cache[a] = NoSnapshot

\* C4 - No two recalculations for the same account are in progress at the
\* same time.
C4_OneRecalculationPerAccount ==
  \A t \in Tasks, u \in Tasks :
    (t # u /\ InRecalc(t) /\ InRecalc(u)) => task[t].acct # task[u].acct

\* C5 - After every recomputation of an account's metrics, on every path, the
\* snapshot was cached, the metrics pushed to subscribers, the legacy engine
\* and the rule evaluator run and the triggered alerts dispatched.
C5_EveryRecomputationRunsAllStages ==
  \A t \in Tasks :
    (task[t].pc = "acct_done" /\ "compute" \in task[t].did) =>
      /\ {"cache", "push", "legacy", "rules"} \subseteq task[t].did
      /\ task[t].legacy # "none" => "legacy_dispatch" \in task[t].did
      /\ task[t].rule_alerts # <<>> => "rule_dispatch" \in task[t].did

C7_FailureIsolation ==
  /\ Poll.pc = "halted" => ~ running
  /\ Poll.pc = "sleeping" =>
       /\ "markets" \in SeqToSet(tick_events)
            => "recalculated" \in SeqToSet(tick_events)
       /\ "positions" \in SeqToSet(tick_events) => loop_seen = loop_list

\* the first account of a position refresh failed and the second was
\* processed
C7_SecondAccountProcessed ==
  /\ Poll.pc = "sleeping"
  /\ "a1" \in loop_failed
  /\ loop_seen = {"a1", "a2"}

\* C8 - Persistence failures do not suppress delivery: every rule alert an
\* evaluation returned has been sent to the rule's channels (or the rule has
\* none) when the account is done.
C8_TriggeredAlertsAreSent ==
  \A t \in Tasks :
    task[t].pc = "acct_done" =>
      SeqToSet(task[t].rule_alerts) \subseteq task[t].sent \cup task[t].nochan

\* C9 - Stopping the service never cancels the polling task inside a
\* recalculation and never takes the shared session away from one.
C9_StopWaitsForCurrentAccount ==
  /\ ~ interrupted
  /\ InRecalc("poll") => db_session = "open"

\* C10 - Legacy engine classification, no cooldown active: d <= 0 gives
\* liquidation/critical whatever the threshold; 0 < d <= T gives
\* liquidation_warning, critical if d <= 5 and warning otherwise; d > T or an
\* infinite d gives no liquidation alert.
C10_LegacyClassification ==
  legacy_call.n > 0 =>
    LET d == legacy_call.distance
        T == legacy_call.threshold
        out == legacy_call.result
    IN /\ (d <= 0 /\ "liquidation" \notin legacy_call.cooling)
            => out = [alert_type |-> "liquidation", severity |-> "critical"]
       /\ (0 < d /\ d <= T /\ "liquidation_warning" \notin legacy_call.cooling)
            => out = [alert_type |-> "liquidation_warning",
                      severity |-> IF d <= 5 THEN "critical" ELSE "warning"]
       /\ (d > T \/ d = Inf) => out = NoAlert

\* threshold 10, distance 8: a warning
C10_WarningAtEight ==
  /\ legacy_call.n > 0
  /\ legacy_call.distance = 8
  /\ legacy_call.threshold = 10
  /\ legacy_call.result =
       [alert_type |-> "liquidation_warning", severity |-> "warning"]

\* C11 - Legacy cooldown: an alert of a kind is returned for an account only
\* if no alert of that kind was recorded for that account during the last
\* ALERT_COOLDOWN_SECONDS, however often the account was evaluated since;
\* and whether it is returned depends on the record of that (account, kind)
\* pair alone: neither a cooling liquidation_warning of the same account
\* nor any record of another account suppresses it.
C11_LegacyCooldown ==
  legacy_call.n > 0 =>
    LET d == legacy_call.distance
        T == legacy_call.threshold
        k == legacy_call.result.alert_type
        Clear(kind) ==
          \/ legacy_call.last[kind] = NeverAlerted
          \/ legacy_call.at - legacy_call.last[kind] >= ALERT_COOLDOWN_SECONDS
    IN /\ k # "none" => Clear(k)
       /\ (d <= 0 /\ Clear("liquidation")) => k = "liquidation"
       /\ (0 < d /\ d <= T /\ Clear("liquidation_warning"))
            => k = "liquidation_warning"

\* a liquidation alert is returned for "a1" while its liquidation_warning
\* cooldown is running
C11_LiquidationDuringWarningCooldown ==
  /\ legacy_call.n > 0
  /\ legacy_call.acct = "a1"
  /\ legacy_call.last["liquidation_warning"] # NeverAlerted
  /\ legacy_call.at - legacy_call.last["liquidation_warning"]
       < ALERT_COOLDOWN_SECONDS
  /\ legacy_call.result.alert_type = "liquidation"

\* C12 - Rule cooldown: after record_alert(rule, subaccount), should_alert
\* for the same rule and subaccount returns False until the rule's
\* cooldown_seconds have elapsed and True afterwards; a record for one
\* (rule, subaccount) pair never blocks another rule or another subaccount.
C12_RuleCooldown ==
  direct_call.fn = "should_alert" =>
    direct_call.result =
      (\/ direct_call.last = NeverAlerted
       \/ direct_call.at - direct_call.last
            >= RuleTable[direct_call.rule].cooldown_seconds)

\* C13 - Rule eligibility: a pass of evaluate_rules_for_subaccount for an
\* account examines, archives and returns only rules that are enabled, not
\* archived when examined, owned by the account's user, and global or
\* targeted at this very account; the flags of every other rule stay as
\* they are.
C13_Eligible(r, a) ==
  /\ RuleTable[r].enabled
  /\ RuleTable[r].user_id = user_id(a)
  /\ RuleTable[r].subaccount_id \in {NoAccount, a}

C13_OnlyEligibleRules ==
  [][/\ \A t \in Tasks :
          /\ task'[t].cur_rule # "none"
               => C13_Eligible(task'[t].cur_rule, task'[t].acct)
          /\ task'[t].cur_rule \notin {"none", task[t].cur_rule}
               => ~ archived[task'[t].cur_rule]
          /\ \A r \in SeqToSet(task'[t].rule_alerts) :
               C13_Eligible(r, task'[t].acct)
     /\ \A r \in Rules :
          (archived'[r] # archived[r] \/ archived_db'[r] # archived_db[r])
            => \E t \in Tasks :
                 r \in {task[t].cur_rule, task'[t].cur_rule}]_vars

\* a pass for "a1" whose figure meets every rule's condition has returned
\* the global rule alone
C13_OnlyGlobalRuleForA1 ==
  \E t \in Tasks :
    /\ task[t].pc = "dispatching"
    /\ task[t].acct = "a1"
    /\ task[t].metrics < 10
    /\ task[t].rule_alerts = <<"r1">>
    /\ \A r \in Rules \ {"r1"} : ~ archived[r]

\* C14 - Condition evaluation fails closed: evaluate_condition never
\* raises, and it returns False for a condition type the evaluator does not
\* know in the rule's scope, for an unknown comparison operator, and for a
\* position-scoped rule whose market is not among the account's positions
\* (so the rule is not archived, archiving being done on True only).
C14_KnownTypes(scope) ==
  IF scope = "position" THEN DOMAIN PositionFigure
  ELSE DOMAIN AccountFigure \cup {"position_size"}

C14_FailsClosed ==
  direct_call.fn = "evaluate_condition" =>
    LET rule == direct_call.rule
        metrics == direct_call.metrics
    IN /\ direct_call.result \in {"True", "False"}
       /\ (\/ rule.condition_type \notin C14_KnownTypes(rule.scope)
            \/ rule.comparison \notin Comparisons
            \/ /\ rule.scope = "position"
               /\ rule.position_market
                    \notin DOMAIN metrics.position_metrics)
            => direct_call.result = "False"

\* a position-scoped rule on ETH-USD, met by the figures of the BTC
\* position, evaluated for an account that holds BTC only
C14_MarketAbsent ==
  /\ direct_call.fn = "evaluate_condition"
  /\ direct_call.rule.scope = "position"
  /\ direct_call.rule.position_market = "ETH-USD"
  /\ direct_call.rule.condition_type = "position_pnl_percent"
  /\ direct_call.rule.comparison = "<="
  /\ DOMAIN direct_call.metrics.position_metrics = {"BTC-USD"}
  /\ direct_call.result = "False"

\* C15 - Comparison semantics: "==" holds exactly when the two values
\* differ by less than 0.001 (two half-thousandths); "<", "<=", ">" and
\* ">=" are the exact orderings.
C15_ComparisonSemantics ==
  direct_call.fn = "_compare_values" =>
    LET x == direct_call.actual_value
        y == direct_call.threshold
        c == direct_call.comparison
    IN /\ c = "==" => (direct_call.result <=> x - y \in {-1, 0, 1})
       /\ c = "<" => (direct_call.result <=> x < y)
       /\ c = "<=" => (direct_call.result <=> ~ (y < x))
       /\ c = ">" => (direct_call.result <=> y < x)
       /\ c = ">=" => (direct_call.result <=> ~ (x < y))

\* values 0.0005 apart compare equal
C15_EqualWithinTolerance ==
  /\ direct_call.fn = "_compare_values"
  /\ direct_call.comparison = "=="
  /\ direct_call.actual_value - direct_call.threshold = 1
  /\ direct_call.result

\* C20 - Transport failure isolation: every channel whose type has a
\* handler is sent to, whatever the sends to the other channels do, and the
\* returned list holds, in channel order, exactly the types of the channels
\* whose send returned True.
C20_Delivered(channel) ==
  channel.channel_type \in Handlers /\ channel.send = "True"

C20_FailureIsolation ==
  direct_call.fn = "send_alert" =>
    LET channels == direct_call.channels
        delivered == SelectSeq(channels, C20_Delivered)
    IN /\ \A i \in 1..Len(channels) :
            channels[i].channel_type \in Handlers => i \in direct_call.started
       /\ direct_call.result =
            [i \in 1..Len(delivered) |-> delivered[i].channel_type]

\* telegram raises, discord still receives the alert
C20_DiscordAfterTelegramRaised ==
  /\ direct_call.fn = "send_alert"
  /\ Len(direct_call.channels) = 2
  /\ direct_call.channels[1] = [channel_type |-> "telegram", send |-> "raise"]
  /\ direct_call.channels[2] = [channel_type |-> "discord", send |-> "True"]
  /\ direct_call.result = <<"discord">>

\* C19 - Auto-deleveraging alerts: evaluate returns an adl_warning only
\* when the insurance-fund-low flag is true, the margin ratio is below 2.0
\* (distance below 100) and evaluate_liquidation_risk returned nothing; the
\* orchestrator, which never passes the flag, gets no adl_warning from any
\* evaluation and records none.
C19_Distances == LegacyDistances \cup {99, 100, 110}

C19_NoAdlWarning ==
  /\ \A t \in Tasks : task[t].legacy # "adl_warning"
  /\ \A a \in Accounts : alert_cooldowns[a]["adl_warning"] = NeverAlerted
  /\ \A a \in Accounts, d \in C19_Distances, flag \in BOOLEAN :
       LET T == liquidation_threshold_percent(a) IN
       evaluate(alert_cooldowns, a, d, T, flag, clock).alert_type
         = "adl_warning"
       => /\ flag
          /\ d < 100
          /\ evaluate_liquidation_risk(alert_cooldowns, a, d, T, clock)
               = NoAlert

\* "a1" is evaluated at distance 5 while its liquidation_warning cooldown
\* runs: no liquidation alert, margin ratio below 2.0, and no alert at all
C19_NothingWhileWarningCools ==
  \E t \in Tasks :
    /\ task[t].acct = "a1"
    /\ "legacy" \in task[t].did
    /\ task[t].metrics = 5
    /\ task[t].legacy = "none"
    /\ alert_cooldowns["a1"]["liquidation_warning"] # NeverAlerted

\* C18 - Adding an account: add_subaccount drops any cache entry of the
\* account, registers it and starts the fetch at once; and when it has
\* completed with data from the upstream, the fetch, the recomputation and
\* the cache write have been done and the account, if nothing removed it
\* meanwhile, has a cache entry - whatever the position tick is doing.
C18_AddFetchesAtOnce ==
  [][LET before == task["api"]
         after == task'["api"]
     IN /\ (before.pc = "idle" /\ after.pc # "idle")
            => /\ after.pc = "fetching"
               /\ after.acct \in monitored'
               /\ cache'[after.acct] = NoSnapshot
        /\ (after.pc = "acct_done" /\ after.raw # NoData)
            => /\ {"compute", "cache"} \subseteq after.did
               /\ after.acct \in monitored'
                    => cache'[after.acct] # NoSnapshot]_vars

\* add_subaccount("a2") is about to return, "a2" has its cache entry, and
\* the polling loop sleeps before a tick that refreshes no positions
C18_CachedBeforePositionTick ==
  /\ task["api"].pc = "acct_done"
  /\ task["api"].acct = "a2"
  /\ cache["a2"].raw_data = 21
  /\ task["poll"].pc = "sleeping"
  /\ positions_counter > 1
  /\ "a2" \notin loop_list

\* C16 - Active-rule cap: whatever creations, updates, deletions and
\* archivings have run, in whatever interleaving, the user has at most 25
\* non-archived rules.
C16_ActiveRuleCap == active_rules(alert_rules) <= active_rule_limit

\* C17 - Scope invariant: every stored position-scope rule has a target
\* market and an owning account, every stored account-scope rule has no
\* target market.
C17_ScopeInvariant ==
  \A n \in RowIds :
    LET rule == alert_rules.rows[n] IN
    /\ rule.scope = "position"
         => rule.position_market # NoMarket /\ rule.subaccount_id # NoAccount
    /\ rule.scope = "account" => rule.position_market = NoMarket

\* C21 - Configuration-error isolation: in a send loop whose session did not
\* raise, a channel id that no longer exists is left out of the channels of
\* its rule and nothing else: every alert taken from the list is either
\* skipped, and then no channel of its rule was found, or recorded in the
\* alert history and sent to the channels of its rule that exist, all of
\* them when no lookup raised.
C21_ConfigurationErrorIsolation ==
  (SendPass /\ ~ direct_call.failed) =>
    \A r \in SeqToSet(direct_call.rule_alerts)
               \ SeqToSet(direct_call.to_send) :
      LET resolvable == FilterSeq(direct_call.channel_ids[r],
                                  direct_call.existing)
      IN /\ r \in direct_call.skipped \/ r \in direct_call.history
         /\ r \in direct_call.skipped
              => resolvable = <<>> \/ r \in direct_call.lookup_raised
         /\ r \in direct_call.history
              => /\ r \in DOMAIN direct_call.dispatched
                 /\ direct_call.dispatched[r] # <<>>
                 /\ SeqToSet(direct_call.dispatched[r])
                      \subseteq SeqToSet(resolvable)
         /\ (r \notin direct_call.lookup_raised /\ resolvable # <<>>)
              => /\ r \in direct_call.history
                 /\ direct_call.dispatched[r] = resolvable

\* r1 had no channel left and was skipped, r2 lost its first channel "c1"
\* and was recorded and sent to "c2"
C21_LaterAlertSentAfterSkip ==
  /\ SendPass
  /\ direct_call.rule_alerts = <<"r1", "r2">>
  /\ direct_call.to_send = <<>>
  /\ direct_call.existing = {"c2"}
  /\ direct_call.channel_ids["r1"] = <<"c1">>
  /\ direct_call.channel_ids["r2"] = <<"c1", "c2">>
  /\ direct_call.skipped = {"r1"}
  /\ direct_call.history = {"r2"}
  /\ direct_call.dispatched["r2"] = <<"c2">>

\* C22 - Oracle-price carry-forward: a push market update never removes a
\* market from the table, leaves every known oracle price known, and leaves
\* it equal to its previous value for a market the update does not mention
\* or mentions without an oracle price.
C22_OraclePriceCarriedForward ==
  [][(MarketsCall /\ direct_call'.fn = "process_markets_update") =>
       \A market_id \in DOMAIN direct_call.table :
         LET old == direct_call.table[market_id].oracle_price
             update == direct_call'.markets_data
         IN old # Null =>
              /\ market_id \in DOMAIN direct_call'.table
              /\ direct_call'.table[market_id].oracle_price # Null
              /\ (market_id \notin DOMAIN update
                  \/ parsed(update[market_id].oraclePrice) = Null)
                   => direct_call'.table[market_id].oracle_price = old]_vars

\* a push update for BTC-USD brought a new initial fraction and no oracle
\* price, and the table still holds the price 2 beside the new fraction
C22_PriceKeptBesideNewFraction ==
  /\ direct_call.fn = "process_markets_update"
  /\ DOMAIN direct_call.markets_data = {"BTC-USD"}
  /\ direct_call.markets_data["BTC-USD"].oraclePrice = Null
  /\ direct_call.markets_data["BTC-USD"].initialMarginFraction = 20
  /\ direct_call.table["BTC-USD"].oracle_price = 2
  /\ direct_call.table["BTC-USD"].initial_margin_fraction = 20

\* C23 - Every snapshot calculate_risk_metrics returns has a margin ratio
\* equal to its equity over its own maintenance requirement (in percent),
\* infinite exactly when that requirement is zero, and a liquidation
\* distance equal to the ratio less 100 percent, infinite exactly when the
\* ratio is, also when the positions carry reported requirements.
C23_RatioOfOwnRequirement ==
  direct_call.fn = "calculate_risk_metrics" =>
    LET m == direct_call.result IN
    /\ m.margin_ratio = Inf <=> m.maintenance_requirement = 0
    /\ m.maintenance_requirement # 0 =>
         m.margin_ratio = (m.equity * 100) \div m.maintenance_requirement
    /\ m.liquidation_distance_percent = Inf <=> m.margin_ratio = Inf
    /\ m.margin_ratio # Inf =>
         m.liquidation_distance_percent = m.margin_ratio - 100

C25_ScaledOnce ==
  LET info == direct_call.payload
      b == IF info.baseImf # Null THEN info.baseImf
           ELSE info.initialMarginFraction
      n == IF info.openNotional # Null THEN info.openNotional
           ELSE info.openInterest * info.oraclePrice
      lower == info.openInterestLowerCap
      upper == info.openInterestUpperCap
      e == IF n <= lower THEN b
           ELSE IF n >= upper THEN FractionUnit
           ELSE b + ((((n - lower) * FractionUnit) \div (upper - lower))
                       * (FractionUnit - b)) \div FractionUnit
  IN (/\ direct_call.fn = "calculate_initial_requirement"
      /\ info.oraclePrice # Null
      /\ b # Null
      /\ info.openNotional # Null \/ info.openInterest # Null
      /\ lower # Null /\ upper # Null /\ lower < upper)
       => direct_call.result
            = (Abs(direct_call.size) * info.oraclePrice * e)
                \div FractionUnit


\* a liquidation price of a position record is null or in (0, 10,000,000]
SanitizedPrice(price) ==
  \/ price = NoPrice
  \/ price.num > 0 /\ ~ Exceeds(price, max_liquidation_price)

\* C26 - Price sanitization: in every per-position record that
\* calculate_risk_metrics produces, the isolated, cross and protocol
\* liquidation prices are each null or in (0, 10,000,000], also after a
\* reported liquidation price replaced the computed price of the position's
\* margin mode.
C26_PricesSanitized ==
  direct_call.fn = "calculate_risk_metrics"
    => \A m \in DOMAIN direct_call.result.position_metrics :
         LET record == direct_call.result.position_metrics[m] IN
         /\ SanitizedPrice(record.isolated_liquidation_price)
         /\ SanitizedPrice(record.cross_liquidation_price)
         /\ SanitizedPrice(record.protocol_liquidation_price)

\* C26 witness: a reported price replaced the computed isolated price of
\* one position while the other position's computed prices, not above
\* zero, were nulled.
C26_OverrideBesideNulledPrice ==
  /\ direct_call.fn = "calculate_risk_metrics"
  /\ DOMAIN direct_call.result.position_metrics = {"BTC-USD", "ETH-USD"}
  /\ LET input == direct_call.subaccount_data.positions["BTC-USD"]
         record == direct_call.result.position_metrics["BTC-USD"]
         other == direct_call.result.position_metrics["ETH-USD"]
     IN /\ input.marginMode = "ISOLATED"
        /\ input.liquidationPrice = 5
        /\ record.isolated_liquidation_price = Quotient(5, 1)
        /\ record.protocol_liquidation_price = Quotient(5, 1)
        /\ other.oracle_price # Null
        /\ other.cross_liquidation_price = NoPrice
        /\ other.isolated_liquidation_price = NoPrice


\* C27 - Infinite sentinels never leave the calculator as numbers: when
\* the margin ratio or the liquidation distance is infinite,
\* RiskMetrics.to_dict yields null for them, and the metadata of an alert
\* holds no infinite number.
C27_NoInfiniteNumber ==
  (direct_call.fn = "rule_alert" /\ direct_call.result.fired)
    => LET metadata == direct_call.result.metadata IN
       /\ metadata.margin_ratio # Inf
       /\ metadata.liquidation_distance_percent # Inf
       /\ metadata.actual_value # float(Inf)


\* C28 - calculate_risk_metrics never raises to its caller: an error inside
\* it ends in a metrics object with equity 0, zero requirements, infinite
\* margin ratio and liquidation distance and no position records, which
\* get_risk_status classifies as "safe" and for which the legacy engine
\* makes no alert.
C28_SafeDefaultsOnError ==
  (/\ direct_call.fn = "calculate_risk_metrics"
   /\ raises_inside(direct_call.subaccount_data))
    => LET metrics == direct_call.result IN
       /\ metrics.failed
       /\ metrics.equity = 0
       /\ metrics.maintenance_requirement = 0
       /\ metrics.initial_requirement = 0
       /\ metrics.margin_ratio = Inf
       /\ metrics.liquidation_distance_percent = Inf
       /\ metrics.position_metrics = <<>>
       /\ \A threshold \in LegacyThresholds :
            /\ get_risk_status(metrics.liquidation_distance_percent,
                               threshold) = "safe"
            /\ \A a \in Accounts, insurance_fund_low \in BOOLEAN :
                 evaluate(alert_cooldowns, a,
                          metrics.liquidation_distance_percent, threshold,
                          insurance_fund_low, clock) = NoAlert

\* C28 witness: a reported liquidation price that is no number made the
\* calculation of an account with equity and a position fail.
C28_FailedOnBadPrice ==
  /\ direct_call.fn = "calculate_risk_metrics"
  /\ direct_call.subaccount_data.equity = 900
  /\ "BTC-USD" \in counted(direct_call.subaccount_data.positions)
  /\ direct_call.subaccount_data.positions["BTC-USD"].liquidationPrice = NaN
  /\ direct_call.result.failed
  /\ direct_call.result.equity = 0


EventsAt(kind, r) ==
  {i \in 1..Len(direct_call.events) : direct_call.events[i] = <<kind, r>>}

\* C30 - Archive-before-format ordering: for every fired rule, setting
\* archived and attempting its commit come before the alert message is
\* formatted and before any alert-history write or channel send for that
\* rule.
C30_ArchiveBeforeFormat ==
  EvalPass
    => \A r \in SeqToSet(EvalRuleIds) :
         \A kind \in {"format", "history", "send"} :
           \A i \in EventsAt(kind, r) :
             /\ \E j \in EventsAt("set_archived", r) : j < i
             /\ \E j \in EventsAt("commit", r) : j < i

\* C30 witness: a rule was archived, formatted, written to the history and
\* sent.
C30_FiredAndSent ==
  /\ EvalPass
  /\ \E r \in SeqToSet(EvalRuleIds) :
       /\ EventsAt("commit", r) # {}
       /\ EventsAt("format", r) # {}
       /\ EventsAt("history", r) # {}
       /\ EventsAt("send", r) # {}


\* C39 - Status and legacy alerts agree: for every finite distance and
\* threshold, a liquidation alert of the legacy engine goes with the status
\* "liquidated", a liquidation_warning of severity critical with "critical"
\* and a liquidation_warning of severity warning with "warning".
C39_StatusAgreesWithAlert ==
  (legacy_call.n > 0 /\ legacy_call.distance # Inf)
    => LET status == get_risk_status(legacy_call.distance,
                                     legacy_call.threshold)
           alert == legacy_call.result
       IN /\ alert.alert_type = "liquidation" => status = "liquidated"
          /\ (alert.alert_type = "liquidation_warning"
              /\ alert.severity = "critical") => status = "critical"
          /\ (alert.alert_type = "liquidation_warning"
              /\ alert.severity = "warning") => status = "warning"

\* C39 witness: a critical warning at the distance of exactly 5 under a
\* threshold above it.
C39_CriticalAtFive ==
  /\ legacy_call.n > 0
  /\ legacy_call.distance = CriticalDistance
  /\ legacy_call.threshold > CriticalDistance
  /\ legacy_call.result.alert_type = "liquidation_warning"
  /\ legacy_call.result.severity = "critical"


\* C31 - Every read and every write of the per-account snapshot cache map,
\* on every code path (cache write, status read, market-tick recalculation,
\* push-driven recalculation, add, remove), is done while holding the
\* status lock.
C31_AccessUnderLock ==
  CachePass => direct_call.holds_lock


\* nothing was written, sent or pushed for the rule
NothingSent(r) ==
  /\ EventsAt("history", r) = {}
  /\ EventsAt("send", r) = {}
  /\ EventsAt("broadcast", r) = {}

AlertsOf(r) == EventsAt("alert", r)

CommittedAlertsOf(r) ==
  {i \in AlertsOf(r) : direct_call.events[i - 2] = <<"commit", r>>}

C34_ArchivedMonotone ==
  [][\A n \in RowIds :
       (/\ alert_rules.rows[n] # NoRow
        /\ alert_rules.rows[n].archived
        /\ alert_rules'.rows[n] # NoRow)
         => alert_rules'.rows[n].archived]_vars

\* C34 witness: an update request that carries a new scope is at
\* AlertRuleCRUD.update for a rule that is archived.
C34_UpdateOfArchivedRule ==
  \E q \in Requests :
    /\ rule_req[q].pc = "updating"
    /\ rule_req[q].body.scope # Unset
    /\ alert_rules.rows[rule_req[q].row] # NoRow
    /\ alert_rules.rows[rule_req[q].row].archived


\* C35 - When the fetch of an account's positions returns no data or data
\* that cannot be parsed, update_subaccount_via_rest ends there for the
\* account: the cache is left as it was, nothing is pushed, and neither the
\* legacy engine nor the rule evaluator runs (no step of the pass follows).
C35_NoDataLeavesAccountAlone ==
  [][\A t \in Tasks :
       (/\ task[t].pc = "fetching"
        /\ task'[t] # task[t]
        /\ "cache" \notin task'[t].did)
         => /\ cache' = cache
            /\ task'[t].pc \in {"acct_done", "acct_failed"}
            /\ task'[t].did = {}
            /\ alert_cooldowns' = alert_cooldowns
            /\ archived' = archived]_vars

\* C35 witness: the position refresh of an account that has a cache entry
\* has ended on a fetch without data, with nothing done for the account.
C35_FetchWithoutData ==
  /\ task["poll"].pc = "acct_done"
  /\ task["poll"].path = "rest_poll"
  /\ task["poll"].did = {}
  /\ cache[task["poll"].acct] # NoSnapshot


\* a refresh of the market table has returned
Refreshed(call) ==
  call.fn = "ensure_market_info" /\ "raised" \in DOMAIN call

\* C36 - A market refresh that fails, returns nothing or normalizes to an
\* empty table leaves the previous market table unchanged; otherwise the
\* whole table is replaced by the non-empty normalized result; in both cases
\* the recalculation of all accounts that follows runs with the table as it
\* then is.
C36_FruitlessRefreshKeepsTable ==
  [][(MarketsCall /\ Refreshed(direct_call'))
       => LET markets == _normalize_market_info(direct_call'.markets_data)
          IN /\ (direct_call'.raised \/ DOMAIN markets = {})
                  => direct_call'.table = direct_call.table
             /\ (~ direct_call'.raised /\ DOMAIN markets # {})
                  => direct_call'.table = markets
             /\ direct_call'.recalculated_with = direct_call'.table]_vars

\* C36 witness: a refresh that returned nothing has left a non-empty table
\* for the recalculation.
C36_TableRetained ==
  /\ Refreshed(direct_call)
  /\ ~ direct_call.raised
  /\ DOMAIN direct_call.markets_data = {}
  /\ DOMAIN direct_call.table # {}
  /\ direct_call.recalculated_with = direct_call.table


\* C37 - The legacy cooldown of an (account, alert kind) pair starts when
\* the engine returns the alert, before send_alert: the time is recorded
\* while the dispatch is pending, send_alert leaves it alone however it ends
\* (delivered or not), and an evaluation inside the cooldown period returns
\* no alert of that kind for that account.
C37_CooldownFromReturn ==
  [][/\ (legacy_call'.n > legacy_call.n /\ legacy_call'.result # NoAlert)
          => /\ legacy_call'.dispatch = "pending"
             /\ alert_cooldowns'[legacy_call'.acct]
                                [legacy_call'.result.alert_type] = clock
     /\ dispatch_of(legacy_call') \in SendAlertOutcomes
          => alert_cooldowns' = alert_cooldowns
     /\ legacy_call'.n > legacy_call.n
          => \A k \in AlertTypes :
               (/\ alert_cooldowns[legacy_call'.acct][k] # NeverAlerted
                /\ clock - alert_cooldowns[legacy_call'.acct][k]
                     < ALERT_COOLDOWN_SECONDS)
                 => legacy_call'.result.alert_type # k]_vars

\* C37 witness: the warning of "a1" reached no channel, and half a cooldown
\* later a distance inside the warning band gives no alert.
C37_SuppressedAfterNoDelivery ==
  /\ legacy_call.n = 2
  /\ legacy_call.acct = "a1"
  /\ legacy_call.before = "no_channels"
  /\ legacy_call.at - legacy_call.last["liquidation_warning"]
       = ALERT_COOLDOWN_SECONDS \div 2
  /\ legacy_call.distance > 0
  /\ legacy_call.distance <= legacy_call.threshold
  /\ legacy_call.result = NoAlert


\* C38 - Market-tick recalculation preserves raw position data: when
\* _recalculate_all_with_fresh_prices stores the entry of an account it
\* recomputed, the raw_data of the entry is the raw position snapshot the
\* entry held before; only metrics, status and source change.
C38_RawDataPreserved ==
  [][\A a \in Accounts :
       (/\ cache'[a] # cache[a]
        /\ cache'[a].source = "oracle_recalc"
        /\ task'["poll"].path = "oracle_recalc"
        /\ task'["poll"].acct = a
        /\ task["poll"].pc = "mkt_loop")
         => cache'[a].raw_data = cache[a].raw_data]_vars


\* C38 witness: the market tick has recomputed an account that holds a
\* position, and the entry it stored carries the raw snapshot.
C38_RecalculatedWithRaw ==
  /\ task["poll"].path = "oracle_recalc"
  /\ task["poll"].pc = "broadcasting"
  /\ cache[task["poll"].acct].source = "oracle_recalc"
  /\ cache[task["poll"].acct].raw_data \in RawValues \ {0}
  /\ cache[task["poll"].acct].raw_data = task["poll"].raw

====
